---- MODULE Spec2Model ----
(***************************************************************************)
(* State-machine model of the ROFL relayer's event coordination core:      *)
(* EventProcessor (packages/rofl-relayer/src/rofl_relayer/                  *)
(* event_processor.py), the PingEvent record (models.py) and the entry     *)
(* point of ProofManager (proof_manager.py) that EventProcessor calls.      *)
(*                                                                         *)
(* Python values are modelled as follows.  A list, a deque and the key     *)
(* order of an OrderedDict are sequences; a dict is a function whose       *)
(* DOMAIN is its key set; None is a distinguished value.  A dataclass      *)
(* instance is a record: equality is by value, as for a frozen dataclass.  *)
(* Web3.keccak is collision free on the inputs of the model: the digest    *)
(* of a text is represented by the text's components.                      *)
(***************************************************************************)
EXTENDS Integers, Sequences, FiniteSets, TLC

\* Capacities of the bounded collections (class attributes of EventProcessor,
\* 10_000 each in the source), scaled down so that eviction happens.
MAX_PROCESSED_HASHES == 2
MAX_PENDING_PINGS == 2
MAX_STORED_HASHES == 2

\* How often one source log may be accepted as new (it is accepted again only
\* after its tx hash fell out of processed_tx_hashes).
MaxAccepts == 2

\* Python's None where a string is expected.
None == "None"

\* Python's None where a PingEvent or a log is expected.
NoPing == [none |-> TRUE]

\* ---------------------------------------------------------------------------
\* Inputs: the logs the two listeners can deliver.
\* ---------------------------------------------------------------------------

\* Ping logs of the source chain.  Two logs lie in block 1, one in block 2,
\* one is a second Ping log of transaction t1, one has no transactionHash.
SourceLogs ==
    { [transactionHash |-> "t1", blockNumber |-> 1, logIndex |-> 0,
       args |-> [sender |-> "s1", timestamp |-> 100]],
      [transactionHash |-> "t2", blockNumber |-> 1, logIndex |-> 0,
       args |-> [sender |-> "s2", timestamp |-> 100]],
      [transactionHash |-> "t3", blockNumber |-> 2, logIndex |-> 0,
       args |-> [sender |-> "s1", timestamp |-> 200]],
      [transactionHash |-> "t1", blockNumber |-> 1, logIndex |-> 1,
       args |-> [sender |-> "s2", timestamp |-> 100]],
      [transactionHash |-> None, blockNumber |-> 2, logIndex |-> 0,
       args |-> [sender |-> "s1", timestamp |-> 200]] }

\* HashStored logs of the target chain: args.id and args.hash.
TargetLogs ==
    { [args |-> [id |-> 1, hash |-> "h1"]],
      [args |-> [id |-> 2, hash |-> "h2"]] }

\* ---------------------------------------------------------------------------
\* models.py: PingEvent
\* ---------------------------------------------------------------------------

\* Web3.keccak(text=f"{tx_hash}-{sender}-{block_number}").hex()
PingId(tx_hash, sender, block_number) == <<tx_hash, sender, block_number>>

PingEvent(tx_hash, block_number, sender, timestamp, ping_id) ==
    [tx_hash |-> tx_hash, block_number |-> block_number, sender |-> sender,
     timestamp |-> timestamp, ping_id |-> ping_id]

\* The PingEvent process_ping_event builds from a log (lines 85-101).
PingOf(event) ==
    PingEvent(event.transactionHash, event.blockNumber, event.args.sender,
              event.args.timestamp,
              PingId(event.transactionHash, event.args.sender, event.blockNumber))

AllPings == { PingOf(e) : e \in { l \in SourceLogs : l.transactionHash # None } }

\* ---------------------------------------------------------------------------
\* Python collection primitives
\* ---------------------------------------------------------------------------

Contains(seq, x) == \E i \in 1..Len(seq) : seq[i] = x

\* list.remove(x) / deque.remove(x): drops the first element equal to x.
ListRemove(seq, x) ==
    IF ~Contains(seq, x) THEN seq
    ELSE LET i == CHOOSE j \in 1..Len(seq) :
                     seq[j] = x /\ \A k \in 1..(j-1) : seq[k] # x
         IN SubSeq(seq, 1, i-1) \o SubSeq(seq, i+1, Len(seq))

\* dict.get(key, [])
DictGet(d, key) == IF key \in DOMAIN d THEN d[key] ELSE <<>>

DictDel(d, key) == [k \in DOMAIN d \ {key} |-> d[k]]

DictSet(d, key, v) == [k \in DOMAIN d \cup {key} |-> IF k = key THEN v ELSE d[k]]

\* Number of occurrences of x in a sequence.
Count(seq, x) == Cardinality({ i \in 1..Len(seq) : seq[i] = x })

\* ---------------------------------------------------------------------------
\* State
\* ---------------------------------------------------------------------------
VARIABLES
    processed_tx_hashes,   \* OrderedDict[str, None]: keys, oldest first
    pending_pings,         \* dict[int, list[PingEvent]]
    pending_pings_order,   \* deque[PingEvent], oldest first
    stored_hashes,         \* OrderedDict[int, str]: <<id, hash>>, oldest first
    proof_manager,         \* the collaborator given to __init__
    config,                \* whether a RelayerConfig was given to __init__
    pc,                    \* position of the process_hash_stored coroutine
    it_block,              \* block_id of the running process_hash_stored
    it_idx,                \* items the list iterator of line 175 has yielded
    it_attached,           \* the iterated list is still pending_pings[it_block]
    cur_ping,              \* ping whose proof_manager call is suspended
    ping_call,             \* last process_ping_event call: its log and return value
    start_list,            \* matching_pings at line 170 of the last call
    handed,                \* pings handed to proof_manager in the last call
    results,               \* outcome of each hand-off of the last call
    accepted,              \* per ping: times process_ping_event created it
    submitted              \* per ping: successful submissions (saturating)

\* Two Ping logs of one chain and the ping ids computed for them.
VARIABLES
    log_a,                 \* a Ping log
    log_b,                 \* a Ping log of the same chain
    id_a,                  \* ping_id computed for log_a, <<>> before
    id_b                   \* ping_id computed for log_b, <<>> before

processor_vars == <<processed_tx_hashes, pending_pings, pending_pings_order,
                    stored_hashes, proof_manager, config, pc, it_block, it_idx,
                    it_attached, cur_ping, ping_call, start_list, handed, results,
                    accepted, submitted>>

\* One PollingEventListener (utils/polling_event_listener.py), the chain it
\* reads and what it has done so far.
VARIABLES
    block_number,          \* w3.eth.block_number: the head of the chain
    last_processed_block,  \* Optional[int]; NoBlock stands for None
    is_running,            \* bool
    lpc,                   \* position of the start_polling coroutine
    current_block,         \* the head the running sync or poll has read
    batch,                 \* events of the running sync or poll not yet delivered
    delivered,             \* events the callback was invoked with and returned for
    failures,              \* RPC calls and callbacks that raised so far
    failed_from,           \* from_block of the poll that failed last, else NoBlock
    poll_from,             \* from_block of the latest poll query, else NoBlock
    stopped,               \* stop() has been called
    after_stop             \* what the listener did after stop() was called

\* ROFLRelayer (relayer.py): the orchestrator, its two listener tasks and
\* its own bookkeeping.
VARIABLES
    running,                      \* ROFLRelayer.running
    rpc,                          \* position of the run() coroutine
    task,                         \* per listener: position of its start_polling task
    listener_is_running,          \* per listener: PollingEventListener.is_running
    stop_called,                  \* listeners whose stop() run() has called
    loop_closed,                  \* the event loop has been shut down
    polled_after_return,          \* listeners that polled after run() returned
    relayer_processed_tx_hashes,  \* ROFLRelayer.processed_tx_hashes: a set
    relayer_pending_pings,        \* ROFLRelayer.pending_pings: a list
    relayer_stored_hashes,        \* ROFLRelayer.stored_hashes: a dict
    target_rpc_url,               \* config.target_chain.rpc_url (TARGET_RPC_URL)
    listener_rpc_url              \* per listener: the rpc_url it was created with

\* A direct call of EventProcessor._track_processed_hash, as the unit tests
\* make it.
VARIABLES
    track_call             \* last such call: its argument and the keys before it

\* RoflUtility (utils/rofl_utility.py): the submissions made through it.
VARIABLES
    rofl_log   \* per submit_tx call: the daemon's response data and the outcome

\* ProofManager (proof_manager.py): one proof generation and submission.
VARIABLES
    pm_chain,         \* what the source chain answers for the ping's transaction
    pm_mode,          \* "rofl" when a rofl_util was given, "local" otherwise
    pm_generate,      \* the last generate_proof call: argument, outcome, proof
    pm_submit,        \* outcome of submit_proof
    pm_tx,            \* the receivePing transaction on the target chain
    pm_warnings,      \* warnings logged by the header encoder
    pm_matched,       \* outcome of EventProcessor.process_matched_events
    pm_ping_pending   \* the matched ping is still in pending_pings

\* Oracle EventProcessor (rofl-oracle event_processor.py).
VARIABLES
    processed_events,   \* the dedupe cache: unique keys, oldest first
    events_processed,   \* metric
    events_filtered,    \* metric
    events_duplicated,  \* metric
    events_invalid,     \* metric
    oracle_call         \* the last process_event call: input, result, state before

\* BlockchainEncoder (utils/blockchain_encoder.py): one header and one index.
VARIABLES
    enc_block,     \* the optional header fields of the block to encode
    enc_header,    \* the header_fields list that was RLP-encoded
    enc_tx_index,  \* the transaction index to encode
    enc_key,       \* the bytes of the receipts trie key
    enc_field      \* transactionIndex field of the proof: hex digits

\* EventListenerUtility (rofl-oracle utils/event_listener_utility.py).
VARIABLES
    ws_pc,                      \* where _websocket_listener is
    retry_count,                \* local of _websocket_listener
    connection_state,           \* ConnectionState
    ws_delay,                   \* seconds of the last asyncio.sleep, 0 before the first
    ws_attempts,                \* connection attempts made so far
    ws_errors_in_row,           \* errors since the listener started or a session last ended without one
    ws_errors_since_connected   \* errors since the listener started or last connected

ping_id_vars == <<log_a, log_b, id_a, id_b>>

relayer_vars == <<running, rpc, task, listener_is_running, stop_called,
                  loop_closed, polled_after_return, relayer_processed_tx_hashes,
                  relayer_pending_pings, relayer_stored_hashes,
                  target_rpc_url, listener_rpc_url>>

\* The endpoints of the configuration and of the two listeners.
endpoints == <<target_rpc_url, listener_rpc_url>>

listener_vars == <<block_number, last_processed_block, is_running, lpc,
                   current_block, batch, delivered, failures, failed_from,
                   poll_from, stopped, after_stop>>

track_vars == <<track_call>>

rofl_vars == <<rofl_log>>

proof_vars == <<pm_chain, pm_mode, pm_generate, pm_submit, pm_tx,
                pm_warnings, pm_matched, pm_ping_pending>>

oracle_vars == <<processed_events, events_processed, events_filtered,
                 events_duplicated, events_invalid, oracle_call>>

encoder_vars == <<enc_block, enc_header, enc_tx_index, enc_key, enc_field>>

ws_vars == <<ws_pc, retry_count, connection_state, ws_delay, ws_attempts,
             ws_errors_in_row, ws_errors_since_connected>>

\* Everything that is not state of the EventProcessor under study.
not_processor == <<ping_id_vars, listener_vars, relayer_vars, track_vars,
                   rofl_vars, proof_vars, oracle_vars, encoder_vars,
                   ws_vars>>

\* Everything that is not state of the listener under study.
not_listener == <<processor_vars, ping_id_vars, relayer_vars, track_vars,
                  rofl_vars, proof_vars, oracle_vars, encoder_vars, ws_vars>>

\* Everything that is not state of the ping id computation.
not_ping_id == <<processor_vars, listener_vars, relayer_vars, track_vars,
                 rofl_vars, proof_vars, oracle_vars, encoder_vars, ws_vars>>

\* Everything that is not state of the orchestrator under study.
not_relayer == <<processor_vars, ping_id_vars, listener_vars, track_vars,
                 rofl_vars, proof_vars, oracle_vars, encoder_vars, ws_vars>>

\* Everything that is state neither of the EventProcessor nor of the direct
\* calls of its hash tracking.
not_track == <<ping_id_vars, listener_vars, relayer_vars, rofl_vars,
               proof_vars, oracle_vars, encoder_vars, ws_vars>>

\* Everything that is not state of the RoflUtility under study.
not_rofl == <<processor_vars, ping_id_vars, listener_vars, relayer_vars,
              track_vars, proof_vars, oracle_vars, encoder_vars, ws_vars>>

\* Everything that is not state of the ProofManager under study.
not_proof == <<processor_vars, ping_id_vars, listener_vars, relayer_vars,
               track_vars, rofl_vars, oracle_vars, encoder_vars, ws_vars>>

\* Everything that is not state of the oracle EventProcessor under study.
not_oracle == <<processor_vars, ping_id_vars, listener_vars, relayer_vars,
                track_vars, rofl_vars, proof_vars, encoder_vars, ws_vars>>

\* Everything that is not state of the BlockchainEncoder under study.
not_encoder == <<processor_vars, ping_id_vars, listener_vars, relayer_vars,
                 track_vars, rofl_vars, proof_vars, oracle_vars, ws_vars>>

\* Everything that is not state of the EventListenerUtility under study.
not_ws == <<processor_vars, ping_id_vars, listener_vars, relayer_vars,
            track_vars, rofl_vars, proof_vars, oracle_vars, encoder_vars>>

vars == <<processor_vars, ping_id_vars, listener_vars, relayer_vars,
          track_vars, rofl_vars, proof_vars, oracle_vars, encoder_vars,
          ws_vars>>

structures == <<processed_tx_hashes, pending_pings, pending_pings_order, stored_hashes>>

wiring == <<proof_manager, config>>

\* The objects a caller can pass as proof_manager: nothing, an instance of the
\* ProofManager class of proof_manager.py, or any other object that answers
\* process_ping_event (the parameter is duck typed; tests pass doubles).
ProofManagers == {"None", "ProofManager", "Double"}

\* Line 174: self.proof_manager and self.config
Wired == proof_manager # "None" /\ config

StoredBlocks == { stored_hashes[i][1] : i \in 1..Len(stored_hashes) }

\* No ping id computation is under study.
PingIdIdle ==
    /\ log_a = NoPing
    /\ log_b = NoPing
    /\ id_a = <<>>
    /\ id_b = <<>>

\* None where a block number is expected.
NoBlock == -1

\* A listener that is constructed and never started (lines 58-59), on an
\* empty chain.
ListenerIdle ==
    /\ block_number = 0
    /\ last_processed_block = NoBlock
    /\ is_running = FALSE
    /\ lpc = "new"
    /\ current_block = NoBlock
    /\ batch = <<>>
    /\ delivered = <<>>
    /\ failures = 0
    /\ failed_from = NoBlock
    /\ poll_from = NoBlock
    /\ stopped = FALSE
    /\ after_stop = {}

\* The two listeners run() creates (relayer.py lines 81-98).
Listeners == {"ping_listener", "hash_listener"}

\* config.source_chain.rpc_url (SOURCE_RPC_URL)
SourceRpcUrl == "source_rpc"

\* The values TARGET_RPC_URL can have: the endpoint of another chain, or, in
\* a test deployment, the endpoint of the source chain.
RpcUrls == {"source_rpc", "target_rpc"}

\* A ROFLRelayer that is constructed (lines 31-56) and not run.
RelayerFresh ==
    /\ running = FALSE
    /\ rpc = "new"
    /\ task = [l \in Listeners |-> "none"]
    /\ listener_is_running = [l \in Listeners |-> FALSE]
    /\ stop_called = {}
    /\ loop_closed = FALSE
    /\ polled_after_return = {}
    /\ relayer_processed_tx_hashes = {}
    /\ relayer_pending_pings = <<>>
    /\ relayer_stored_hashes = <<>>
    /\ listener_rpc_url = [l \in Listeners |-> "none"]

\* The same, configured with two chains.
RelayerIdle ==
    /\ RelayerFresh
    /\ target_rpc_url = "target_rpc"

\* No direct call of _track_processed_hash has been made.
TrackIdle ==
    /\ track_call = [tx_hash |-> None, before |-> <<>>]

\* No transaction has been submitted through RoflUtility.
RoflIdle ==
    /\ rofl_log = <<>>

\* No proof has been asked for.
ProofIdle ==
    /\ pm_chain = [available |-> "all", logs |-> <<>>, receipt_extra |-> FALSE,
                   header_extra |-> FALSE, tx_index |-> 0]
    /\ pm_mode = "local"
    /\ pm_generate = [log_index |-> 0, result |-> "none", proof |-> <<>>]
    /\ pm_submit = "none"
    /\ pm_tx = "none"
    /\ pm_warnings = {}
    /\ pm_matched = "none"
    /\ pm_ping_pending = TRUE

\* The oracle EventProcessor has just been constructed.
OracleIdle ==
    /\ processed_events = <<>>
    /\ events_processed = 0
    /\ events_filtered = 0
    /\ events_duplicated = 0
    /\ events_invalid = 0
    /\ oracle_call = <<>>

\* The header fields added by the hardforks after the legacy fields.
IntegerFields == {"baseFeePerGas", "blobGasUsed", "excessBlobGas"}

HashFields == {"withdrawalsRoot", "parentBeaconBlockRoot", "requestsRoot", "requestsHash"}

OptionalFields == IntegerFields \cup HashFields

\* Nothing has been encoded.
EncoderIdle ==
    /\ enc_block = [f \in OptionalFields |-> "absent"]
    /\ enc_header = <<>>
    /\ enc_tx_index = 0
    /\ enc_key = <<>>
    /\ enc_field = <<>>

\* The EventListenerUtility has just been constructed.
WsIdle ==
    /\ ws_pc = "idle"
    /\ retry_count = 0
    /\ connection_state = "disconnected"
    /\ ws_delay = 0
    /\ ws_attempts = 0
    /\ ws_errors_in_row = 0
    /\ ws_errors_since_connected = 0

Init ==
    /\ processed_tx_hashes = <<>>
    /\ pending_pings = <<>>
    /\ pending_pings_order = <<>>
    /\ stored_hashes = <<>>
    /\ proof_manager \in ProofManagers
    /\ config \in BOOLEAN
    /\ pc = "idle"
    /\ it_block = 0
    /\ it_idx = 0
    /\ it_attached = FALSE
    /\ cur_ping = NoPing
    /\ ping_call = [event |-> NoPing, ret |-> NoPing]
    /\ start_list = <<>>
    /\ handed = <<>>
    /\ results = <<>>
    /\ accepted = [p \in AllPings |-> 0]
    /\ submitted = [p \in AllPings |-> 0]
    /\ PingIdIdle
    /\ ListenerIdle
    /\ RelayerIdle
    /\ TrackIdle
    /\ RoflIdle
    /\ ProofIdle
    /\ OracleIdle
    /\ EncoderIdle
    /\ WsIdle


\* ---------------------------------------------------------------------------
\* event_processor.py: helpers
\* ---------------------------------------------------------------------------

\* Faulty variant: a hash that is present is left where it is (no
\* move_to_end).
TrackProcessedHashNoMove(keys, tx_hash) ==
    IF Contains(keys, tx_hash)
    THEN keys
    ELSE (IF Len(keys) >= MAX_PROCESSED_HASHES THEN Tail(keys) ELSE keys)
         \o <<tx_hash>>

\* Faulty variant: the capacity test is off by one (> for >=).
TrackProcessedHashLate(keys, tx_hash) ==
    IF Contains(keys, tx_hash)
    THEN ListRemove(keys, tx_hash) \o <<tx_hash>>
    ELSE (IF Len(keys) > MAX_PROCESSED_HASHES THEN Tail(keys) ELSE keys)
         \o <<tx_hash>>

\* _track_processed_hash (lines 184-200)
TrackProcessedHash(keys, tx_hash) ==
    IF Contains(keys, tx_hash)
    THEN ListRemove(keys, tx_hash) \o <<tx_hash>>
    ELSE (IF Len(keys) >= MAX_PROCESSED_HASHES THEN Tail(keys) ELSE keys)
         \o <<tx_hash>>

\* Lines 114-119 and 225-229: drop one ping from its block list and drop the
\* key when the list became empty.
RemoveFromBlock(pp, ping) ==
    IF ping.block_number \in DOMAIN pp /\ Contains(pp[ping.block_number], ping)
    THEN LET block_pings == ListRemove(pp[ping.block_number], ping)
         IN IF block_pings = <<>>
            THEN DictDel(pp, ping.block_number)
            ELSE DictSet(pp, ping.block_number, block_pings)
    ELSE pp

\* Faulty variant: the capacity test is off by one, so a ping is evicted while
\* the queue still has room.
EvictOldestEarly(pp, order) ==
    IF Len(order) >= MAX_PENDING_PINGS - 1 /\ order # <<>>
    THEN [pending |-> RemoveFromBlock(pp, Head(order)), order |-> Tail(order)]
    ELSE [pending |-> pp, order |-> order]

\* Faulty variant: the newest ping is evicted (pop for popleft).
EvictNewest(pp, order) ==
    IF Len(order) >= MAX_PENDING_PINGS
    THEN [pending |-> RemoveFromBlock(pp, order[Len(order)]),
          order   |-> SubSeq(order, 1, Len(order) - 1)]
    ELSE [pending |-> pp, order |-> order]

\* Lines 108-121: capacity check before an insertion.
EvictOldest(pp, order) ==
    IF Len(order) >= MAX_PENDING_PINGS
    THEN [pending |-> RemoveFromBlock(pp, Head(order)), order |-> Tail(order)]
    ELSE [pending |-> pp, order |-> order]

\* Lines 123-130: insertion into both structures.
AddPending(pp, order, ping) ==
    [pending |-> DictSet(pp, ping.block_number,
                         Append(DictGet(pp, ping.block_number), ping)),
     order   |-> Append(order, ping)]

\* Faulty variant: the ping is removed from the table but left in the queue.
RemoveSubmittedTableOnly(pp, order, ping) ==
    [pending |-> RemoveFromBlock(pp, ping), order |-> order]

\* Lines 225-234: removal after a successful submission.
RemoveSubmitted(pp, order, ping) ==
    [pending |-> RemoveFromBlock(pp, ping), order |-> ListRemove(order, ping)]

\* Faulty variant: the oldest entry is evicted but the assignment of line 166
\* is missing.
StoreHashEvictsOnly(stored, block_id, block_hash) ==
    IF Len(stored) >= MAX_STORED_HASHES THEN Tail(stored) ELSE stored

\* Lines 162-166: OrderedDict insertion with eviction of the oldest entry.
\* Assigning to a key that is present keeps the key's position.
StoreHash(stored, block_id, block_hash) ==
    LET kept == IF Len(stored) >= MAX_STORED_HASHES THEN Tail(stored) ELSE stored
    IN IF \E i \in 1..Len(kept) : kept[i][1] = block_id
       THEN [i \in 1..Len(kept) |->
                IF kept[i][1] = block_id THEN <<block_id, block_hash>> ELSE kept[i]]
       ELSE Append(kept, <<block_id, block_hash>>)

\* Faulty variant: the lookup ignores block_id and takes the list of some key.
MatchingPingsAnyKey(pp, block_id) ==
    IF DOMAIN pp = {} THEN <<>> ELSE pp[CHOOSE k \in DOMAIN pp : TRUE]

\* Line 170: matching_pings = self.pending_pings.get(block_id, [])
MatchingPings(pp, block_id) == DictGet(pp, block_id)

\* Faulty variant: the duplicate check never fires.
AlreadyProcessedNever(keys, tx_hash) == FALSE

\* Line 79: tx_hash in self.processed_tx_hashes
AlreadyProcessed(keys, tx_hash) == Contains(keys, tx_hash)

\* Faulty variant: the for loop walks a copy of the list taken at line 170.
IterListSnapshot == start_list

\* The list object the for loop of line 175 walks.  It is the list line 170
\* found, which stays pending_pings[it_block] until that key is deleted; a
\* deleted list is empty and nothing appends to it.
IterList == IF it_attached THEN MatchingPings(pending_pings, it_block) ELSE <<>>

\* proof_manager.py line 190-191: ProofManager.process_ping_event reads
\* ping_event.log_index before anything else; an object without that attribute
\* raises AttributeError there.
RaisesAtEntry(pm, ping) == pm = "ProofManager" /\ "log_index" \notin DOMAIN ping

Saturate(n) == IF n > MaxAccepts THEN MaxAccepts + 1 ELSE n

\* ---------------------------------------------------------------------------
\* EventProcessor.process_ping_event (lines 55-136).  It contains no await, so
\* it runs atomically, either while no process_hash_stored is running or while
\* one is suspended in a submission.
\* ---------------------------------------------------------------------------

\* The effect on the collections and the return value.
AcceptPing(event) ==
    LET tx_hash == event.transactionHash IN
    IF tx_hash = None \/ AlreadyProcessed(processed_tx_hashes, tx_hash)
    THEN /\ ping_call' = [event |-> event, ret |-> NoPing]
         /\ UNCHANGED <<structures, it_attached, accepted>>
    ELSE IF event.args = NoPing
    THEN \* line 82, then args.get of line 88 raises AttributeError: lines 134-136
         /\ processed_tx_hashes' = TrackProcessedHash(processed_tx_hashes, tx_hash)
         /\ ping_call' = [event |-> event, ret |-> NoPing]
         /\ UNCHANGED <<pending_pings, pending_pings_order, stored_hashes,
                        it_attached, accepted>>
    ELSE LET ping_event == PingOf(event)
             evicted == EvictOldest(pending_pings, pending_pings_order)
             added == AddPending(evicted.pending, evicted.order, ping_event)
         IN /\ accepted[ping_event] < MaxAccepts
            /\ processed_tx_hashes' = TrackProcessedHash(processed_tx_hashes, tx_hash)
            /\ pending_pings' = added.pending
            /\ pending_pings_order' = added.order
            /\ it_attached' = (it_attached /\ it_block \in DOMAIN evicted.pending)
            /\ accepted' = [accepted EXCEPT ![ping_event] = @ + 1]
            /\ ping_call' = [event |-> event, ret |-> ping_event]
            /\ UNCHANGED stored_hashes

\* Faulty variant: an accepted ping whose block is already attested is
\* dispatched on arrival.
ProcessPingEventThenDispatch(event) ==
    /\ pc \in {"idle", "await"}
    /\ AcceptPing(event)
    /\ IF pc = "idle" /\ ping_call'.ret # NoPing /\ event.blockNumber \in StoredBlocks
       THEN /\ pc' = "await"
            /\ cur_ping' = ping_call'.ret
            /\ handed' = Append(handed, ping_call'.ret)
       ELSE UNCHANGED <<pc, cur_ping, handed>>
    /\ UNCHANGED <<wiring, it_block, it_idx, start_list, results, submitted>>
    /\ UNCHANGED not_processor

ProcessPingEvent(event) ==
    /\ pc \in {"idle", "await"}
    /\ AcceptPing(event)
    /\ UNCHANGED <<wiring, pc, it_block, it_idx, cur_ping, start_list, handed,
                   results, submitted>>
    /\ UNCHANGED not_processor

\* ---------------------------------------------------------------------------
\* EventProcessor.process_hash_stored (lines 138-182), up to the for loop.
\* The listener awaits each callback, so one call runs at a time.
\* ---------------------------------------------------------------------------
ProcessHashStored(event) ==
    /\ pc = "idle"
    /\ LET block_id == event.args.id
           matching_pings == MatchingPings(pending_pings, block_id)
       IN /\ stored_hashes' = StoreHash(stored_hashes, block_id, event.args.hash)
          /\ start_list' = matching_pings
          /\ handed' = <<>>
          /\ results' = <<>>
          /\ IF matching_pings # <<>> /\ Wired
             THEN /\ pc' = "loop"
                  /\ it_block' = block_id
                  /\ it_idx' = 0
                  /\ it_attached' = TRUE
             ELSE UNCHANGED <<pc, it_block, it_idx, it_attached>>
    /\ UNCHANGED <<processed_tx_hashes, pending_pings, pending_pings_order, wiring,
                   cur_ping, ping_call, accepted, submitted>>
    /\ UNCHANGED not_processor

\* Line 175-176 with process_matched_events lines 209-221: the iterator yields
\* its next ping and the ping is handed to proof_manager.process_ping_event.
HandOff ==
    /\ pc = "loop"
    /\ it_idx < Len(IterList)
    /\ LET ping == IterList[it_idx + 1] IN
       /\ it_idx' = it_idx + 1
       /\ handed' = Append(handed, ping)
       /\ IF RaisesAtEntry(proof_manager, ping)
          THEN \* caught at line 236; the loop goes on
               /\ results' = Append(results, "attr_error")
               /\ UNCHANGED <<pc, cur_ping>>
          ELSE /\ pc' = "await"
               /\ cur_ping' = ping
               /\ UNCHANGED results
    /\ UNCHANGED <<structures, wiring, it_block, it_attached, ping_call,
                   start_list, accepted, submitted>>
    /\ UNCHANGED not_processor

\* Lines 225-234: does the removal leave process_matched_events' try block with
\* an exception.  list.remove and deque.remove raise ValueError for an element
\* that is absent: the first runs only behind the membership test of line 226,
\* the second inside the try of lines 231-234, which swallows ValueError.
RemovalRaises(pp, order, ping) ==
    LET block_pings == DictGet(pp, ping.block_number)
        table_removes == Contains(block_pings, ping)
        value_error_caught == TRUE
    IN \/ table_removes /\ ~Contains(block_pings, ping)
       \/ ~Contains(order, ping) /\ ~value_error_caught

\* Lines 223-234: the awaited call returned a transaction hash.
SubmitOk ==
    /\ pc = "await"
    /\ LET removed == RemoveSubmitted(pending_pings, pending_pings_order, cur_ping) IN
       /\ pending_pings' = removed.pending
       /\ pending_pings_order' = removed.order
       /\ it_attached' = (it_attached /\ it_block \in DOMAIN removed.pending)
    /\ results' = Append(results,
                         IF RemovalRaises(pending_pings, pending_pings_order, cur_ping)
                         THEN "remove_error" ELSE "ok")
    /\ submitted' = [submitted EXCEPT ![cur_ping] = Saturate(@ + 1)]
    /\ pc' = "loop"
    /\ cur_ping' = NoPing
    /\ UNCHANGED <<processed_tx_hashes, stored_hashes, wiring, it_block, it_idx,
                   ping_call, start_list, handed, accepted>>
    /\ UNCHANGED not_processor

\* Faulty variant: the removal runs although the call raised.
SubmitFailDropsPing ==
    /\ pc = "await"
    /\ LET removed == RemoveSubmitted(pending_pings, pending_pings_order, cur_ping) IN
       /\ pending_pings' = removed.pending
       /\ pending_pings_order' = removed.order
       /\ it_attached' = (it_attached /\ it_block \in DOMAIN removed.pending)
    /\ results' = Append(results, "fail")
    /\ pc' = "loop"
    /\ cur_ping' = NoPing
    /\ UNCHANGED <<processed_tx_hashes, stored_hashes, wiring, it_block, it_idx,
                   ping_call, start_list, handed, accepted, submitted>>
    /\ UNCHANGED not_processor

\* Lines 236-237: the awaited call raised; the exception is logged.
SubmitFail ==
    /\ pc = "await"
    /\ results' = Append(results, "fail")
    /\ pc' = "loop"
    /\ cur_ping' = NoPing
    /\ UNCHANGED <<structures, wiring, it_block, it_idx, it_attached, ping_call,
                   start_list, handed, accepted, submitted>>
    /\ UNCHANGED not_processor

\* Line 175 exhausted, line 178: process_hash_stored returns.
LoopExit ==
    /\ pc = "loop"
    /\ it_idx >= Len(IterList)
    /\ pc' = "idle"
    /\ it_block' = 0
    /\ it_idx' = 0
    /\ it_attached' = FALSE
    /\ UNCHANGED <<structures, wiring, cur_ping, ping_call, start_list, handed,
                   results, accepted, submitted>>
    /\ UNCHANGED not_processor

Next ==
    \/ \E event \in SourceLogs : ProcessPingEvent(event)
    \/ \E event \in TargetLogs : ProcessHashStored(event)
    \/ HandOff
    \/ SubmitOk
    \/ SubmitFail
    \/ LoopExit

Spec == Init /\ [][Next]_vars

\* The event loop resumes a runnable coroutine, and an awaited call returns or
\* raises; the chains owe the listeners no further events.
FairSpec ==
    /\ Spec
    /\ WF_vars(HandOff)
    /\ WF_vars(LoopExit)
    /\ WF_vars(SubmitOk \/ SubmitFail)

\* ---------------------------------------------------------------------------
\* The ping id as a function of the log (event_processor.py lines 85-101),
\* applied to two Ping logs of one chain.
\* ---------------------------------------------------------------------------

\* An EventProcessor that is constructed without collaborators and never called.
ProcessorIdle ==
    /\ processed_tx_hashes = <<>>
    /\ pending_pings = <<>>
    /\ pending_pings_order = <<>>
    /\ stored_hashes = <<>>
    /\ proof_manager = "None"
    /\ config = FALSE
    /\ pc = "idle"
    /\ it_block = 0
    /\ it_idx = 0
    /\ it_attached = FALSE
    /\ cur_ping = NoPing
    /\ ping_call = [event |-> NoPing, ret |-> NoPing]
    /\ start_list = <<>>
    /\ handed = <<>>
    /\ results = <<>>
    /\ accepted = [p \in AllPings |-> 0]
    /\ submitted = [p \in AllPings |-> 0]

\* The block each transaction of the chain was mined in.
TxBlock == [t1 |-> 1, t2 |-> 1, t3 |-> 2]

MaxLogIndex == 2

\* The Ping logs a chain can hold: a transaction may emit several Ping logs,
\* told apart by logIndex, and args.sender is free: one sender may ping more
\* than once in one transaction.
PingLogs ==
    { [transactionHash |-> tx, blockNumber |-> TxBlock[tx], logIndex |-> idx,
       args |-> [sender |-> sender, timestamp |-> 100 * TxBlock[tx]]] :
      tx \in DOMAIN TxBlock, idx \in 0..MaxLogIndex, sender \in {"s1", "s2"} }

\* Two logs are the same log iff they have the same place on the chain.
SameLog(a, b) ==
    a.transactionHash = b.transactionHash /\ a.logIndex = b.logIndex

PingIdInit ==
    /\ ProcessorIdle
    /\ ListenerIdle
    /\ RelayerIdle
    /\ log_a \in PingLogs
    /\ log_b \in PingLogs
    /\ SameLog(log_a, log_b) => log_a = log_b
    /\ id_a = <<>>
    /\ id_b = <<>>
    /\ TrackIdle
    /\ RoflIdle
    /\ ProofIdle
    /\ OracleIdle
    /\ EncoderIdle
    /\ WsIdle

\* Lines 85-92 on each of the two logs.
ComputePingIds ==
    /\ id_a = <<>>
    /\ id_a' = PingOf(log_a).ping_id
    /\ id_b' = PingOf(log_b).ping_id
    /\ UNCHANGED <<log_a, log_b>>
    /\ UNCHANGED not_ping_id

PingIdNext == ComputePingIds

PingIdSpec == PingIdInit /\ [][PingIdNext]_vars

\* ---------------------------------------------------------------------------
\* utils/polling_event_listener.py: PollingEventListener.
\*
\* w3.eth.block_number and event_obj.get_logs are synchronous calls, so the
\* coroutine can be suspended only in asyncio.sleep and in an awaited
\* callback.  Each action runs from one suspension point to the next.
\* ---------------------------------------------------------------------------

\* Bounds of the exploration: blocks the chain grows to, and raised
\* exceptions (failed RPC calls and failed callbacks) per behaviour.
MaxHead == 3
MaxFailures == 2

\* lookback_blocks given to __init__
Lookback == 1

\* The logs of the watched event on the chain, in chain order.  Block 2 holds
\* two of them.
ChainLogs ==
    << [blockNumber |-> 1, logIndex |-> 0],
       [blockNumber |-> 2, logIndex |-> 0],
       [blockNumber |-> 2, logIndex |-> 1],
       [blockNumber |-> 3, logIndex |-> 0] >>

InRange(log, from_block, to_block) ==
    from_block <= log.blockNumber /\ log.blockNumber <= to_block

\* event_obj.get_logs(from_block=..., to_block=...)
GetLogs(from_block, to_block) ==
    SelectSeq(ChainLogs, LAMBDA log : InRange(log, from_block, to_block))

\* Python truth value of an Optional[int]: None and 0 are false.
Truthy(block) == block # NoBlock /\ block # 0

Max(a, b) == IF a >= b THEN a ELSE b

\* Line 73
SyncFromBlock(head) == Max(0, head - Lookback)

\* Line 114
PollFromBlock(last, head) == IF Truthy(last) THEN last + 1 ELSE head

\* Line 163: where start_polling goes when a poll has returned.
LoopTop == IF is_running THEN "sleep" ELSE "done"

\* What the listener does is recorded once stop() has been called.
Noted(what) == IF stopped THEN after_stop \cup what ELSE after_stop

ListenerInit ==
    /\ ProcessorIdle
    /\ PingIdIdle
    /\ ListenerIdle
    /\ RelayerIdle
    /\ TrackIdle
    /\ RoflIdle
    /\ ProofIdle
    /\ OracleIdle
    /\ EncoderIdle
    /\ WsIdle

\* A block is mined.
MineBlock ==
    /\ block_number < MaxHead
    /\ block_number' = block_number + 1
    /\ UNCHANGED <<last_processed_block, is_running, lpc, current_block, batch,
                   delivered, failures, failed_from, poll_from, stopped, after_stop>>
    /\ UNCHANGED not_listener

\* start_polling lines 149-160 with initial_sync lines 71-84: the flag is
\* set, the head is read and the historical logs are fetched.
StartPolling ==
    /\ lpc = "new"
    /\ ~is_running
    /\ is_running' = TRUE
    /\ current_block' = block_number
    /\ batch' = GetLogs(SyncFromBlock(block_number), block_number)
    /\ lpc' = "sync"
    /\ after_stop' = Noted({"query"})
    /\ UNCHANGED <<block_number, last_processed_block, delivered, failures,
                   failed_from, poll_from, stopped>>
    /\ UNCHANGED not_listener

\* The same with an RPC call of initial_sync raising: lines 96-98 log and
\* re-raise, and start_polling has no handler around line 160.
StartPollingRpcFails ==
    /\ lpc = "new"
    /\ ~is_running
    /\ failures < MaxFailures
    /\ is_running' = TRUE
    /\ failures' = failures + 1
    /\ lpc' = "raised"
    /\ UNCHANGED <<block_number, last_processed_block, current_block, batch,
                   delivered, failed_from, poll_from, stopped, after_stop>>
    /\ UNCHANGED not_listener

\* Lines 88-89: one callback of the initial sync returns.
SyncCallback ==
    /\ lpc = "sync"
    /\ batch # <<>>
    /\ delivered' = Append(delivered, Head(batch))
    /\ batch' = Tail(batch)
    /\ after_stop' = Noted({"callback"})
    /\ UNCHANGED <<block_number, last_processed_block, is_running, lpc,
                   current_block, failures, failed_from, poll_from, stopped>>
    /\ UNCHANGED not_listener

\* Lines 88-89 and 96-98: one callback of the initial sync raises.
SyncCallbackFails ==
    /\ lpc = "sync"
    /\ batch # <<>>
    /\ failures < MaxFailures
    /\ batch' = <<>>
    /\ failures' = failures + 1
    /\ lpc' = "raised"
    /\ after_stop' = Noted({"callback"})
    /\ UNCHANGED <<block_number, last_processed_block, is_running, current_block,
                   delivered, failed_from, poll_from, stopped>>
    /\ UNCHANGED not_listener

\* Line 94, then the loop test of line 163.
SyncDone ==
    /\ lpc = "sync"
    /\ batch = <<>>
    /\ last_processed_block' = current_block
    /\ lpc' = LoopTop
    /\ UNCHANGED <<block_number, is_running, current_block, batch, delivered,
                   failures, failed_from, poll_from, stopped, after_stop>>
    /\ UNCHANGED not_listener

\* Lines 165-166 and 108-112: the sleep is over, the head is read and is not
\* beyond last_processed_block.
PollNoNewBlocks ==
    /\ lpc = "sleep"
    /\ Truthy(last_processed_block) /\ block_number <= last_processed_block
    /\ current_block' = block_number
    /\ lpc' = LoopTop
    /\ UNCHANGED <<block_number, last_processed_block, is_running, batch,
                   delivered, failures, failed_from, poll_from, stopped, after_stop>>
    /\ UNCHANGED not_listener

\* Lines 108 and 133-135: reading the head raises.
PollHeadReadFails ==
    /\ lpc = "sleep"
    /\ failures < MaxFailures
    /\ failures' = failures + 1
    /\ lpc' = LoopTop
    /\ UNCHANGED <<block_number, last_processed_block, is_running, current_block,
                   batch, delivered, failed_from, poll_from, stopped, after_stop>>
    /\ UNCHANGED not_listener

\* Lines 108-120 and 133-135: the log query raises.
PollGetLogsFails ==
    /\ lpc = "sleep"
    /\ ~(Truthy(last_processed_block) /\ block_number <= last_processed_block)
    /\ failures < MaxFailures
    /\ failures' = failures + 1
    /\ current_block' = block_number
    /\ poll_from' = PollFromBlock(last_processed_block, block_number)
    /\ failed_from' = PollFromBlock(last_processed_block, block_number)
    /\ after_stop' = Noted({"query"})
    /\ lpc' = LoopTop
    /\ UNCHANGED <<block_number, last_processed_block, is_running, batch,
                   delivered, stopped>>
    /\ UNCHANGED not_listener

\* Lines 108-131: the head is read and the logs are fetched.  Without events
\* the poll is over at line 131; with events it goes on to the callbacks.
PollQuery ==
    /\ lpc = "sleep"
    /\ ~(Truthy(last_processed_block) /\ block_number <= last_processed_block)
    /\ LET from_block == PollFromBlock(last_processed_block, block_number)
           events == GetLogs(from_block, block_number)
       IN /\ current_block' = block_number
          /\ poll_from' = from_block
          /\ after_stop' = Noted({"query"})
          /\ IF events = <<>>
             THEN /\ last_processed_block' = block_number
                  /\ failed_from' = NoBlock
                  /\ lpc' = LoopTop
                  /\ UNCHANGED batch
             ELSE /\ batch' = events
                  /\ lpc' = "poll"
                  /\ UNCHANGED <<last_processed_block, failed_from>>
    /\ UNCHANGED <<block_number, is_running, delivered, failures, stopped>>
    /\ UNCHANGED not_listener

\* Lines 127-128: one callback of a poll returns.
PollCallback ==
    /\ lpc = "poll"
    /\ batch # <<>>
    /\ delivered' = Append(delivered, Head(batch))
    /\ batch' = Tail(batch)
    /\ after_stop' = Noted({"callback"})
    /\ UNCHANGED <<block_number, last_processed_block, is_running, lpc,
                   current_block, failures, failed_from, poll_from, stopped>>
    /\ UNCHANGED not_listener

\* Lines 127-128 and 133-135: one callback of a poll raises; the rest of the
\* batch is dropped and last_processed_block is not updated.
PollCallbackFails ==
    /\ lpc = "poll"
    /\ batch # <<>>
    /\ failures < MaxFailures
    /\ batch' = <<>>
    /\ failures' = failures + 1
    /\ failed_from' = poll_from
    /\ after_stop' = Noted({"callback"})
    /\ lpc' = LoopTop
    /\ UNCHANGED <<block_number, last_processed_block, is_running, current_block,
                   delivered, poll_from, stopped>>
    /\ UNCHANGED not_listener

\* Line 131, then the loop test of line 163.
PollDone ==
    /\ lpc = "poll"
    /\ batch = <<>>
    /\ last_processed_block' = current_block
    /\ failed_from' = NoBlock
    /\ lpc' = LoopTop
    /\ UNCHANGED <<block_number, is_running, current_block, batch, delivered,
                   failures, poll_from, stopped, after_stop>>
    /\ UNCHANGED not_listener

\* stop (lines 175-178), called by another coroutine while start_polling is
\* suspended.
Stop ==
    /\ lpc \in {"sync", "sleep", "poll"}
    /\ ~stopped
    /\ is_running' = FALSE
    /\ stopped' = TRUE
    /\ UNCHANGED <<block_number, last_processed_block, lpc, current_block, batch,
                   delivered, failures, failed_from, poll_from, after_stop>>
    /\ UNCHANGED not_listener

\* The task running start_polling is cancelled: CancelledError is raised at
\* the suspension point.  It is not an Exception, so only lines 167-169 catch
\* it, and only inside the loop.
Cancel ==
    /\ lpc \in {"sync", "sleep", "poll"}
    /\ lpc' = IF lpc = "sync" THEN "cancelled" ELSE "done"
    /\ batch' = <<>>
    /\ UNCHANGED <<block_number, last_processed_block, is_running, current_block,
                   delivered, failures, failed_from, poll_from, stopped, after_stop>>
    /\ UNCHANGED not_listener

ListenerNext ==
    \/ MineBlock
    \/ StartPolling
    \/ StartPollingRpcFails
    \/ SyncCallback
    \/ SyncCallbackFails
    \/ SyncDone
    \/ PollNoNewBlocks
    \/ PollHeadReadFails
    \/ PollGetLogsFails
    \/ PollQuery
    \/ PollCallback
    \/ PollCallbackFails
    \/ PollDone
    \/ Stop
    \/ Cancel

ListenerSpec == ListenerInit /\ [][ListenerNext]_vars

\* ---------------------------------------------------------------------------
\* relayer.py: ROFLRelayer.  run() creates one task per listener and then
\* sleeps in its main loop; the tasks run start_polling of
\* utils/polling_event_listener.py with the relayer's own process_ping_event
\* and process_hash_stored as callbacks.  A task is followed from sleep to
\* sleep: its initial sync finds no events, each poll finds at most one.
\* ---------------------------------------------------------------------------

\* Ping logs of distinct transactions, one more than MAX_PENDING_PINGS.
RelayerPingLogs ==
    { [transactionHash |-> n, blockNumber |-> 1, logIndex |-> 0,
       args |-> [sender |-> "s1", timestamp |-> 100]] :
      n \in 1..(MAX_PENDING_PINGS + 1) }

\* relayer.py lines 128-150: the ping record process_ping_event builds.
RelayerPingOf(event) ==
    [tx_hash |-> event.transactionHash, block_number |-> event.blockNumber,
     log_index |-> event.logIndex, sender |-> event.args.sender,
     timestamp |-> event.args.timestamp,
     ping_id |-> <<event.transactionHash, event.logIndex>>]

\* task.done()
TaskDone(l) == task[l] \in {"done", "raised"}

\* Line 163 of the listener: where its task goes when a poll has returned.
TaskLoopTop(l) == IF listener_is_running[l] THEN "sleep" ELSE "done"

\* A poll that takes place after run() has returned is recorded.
PollNoted(l) ==
    IF rpc = "returned" THEN polled_after_return \cup {l} ELSE polled_after_return

RelayerInit ==
    /\ ProcessorIdle
    /\ PingIdIdle
    /\ ListenerIdle
    /\ RelayerFresh
    /\ target_rpc_url \in RpcUrls
    /\ TrackIdle
    /\ RoflIdle
    /\ ProofIdle
    /\ OracleIdle
    /\ EncoderIdle
    /\ WsIdle

\* run lines 206-236: the listeners and their tasks are created and run()
\* suspends in the sleep of its main loop.  init_event_monitoring gives both
\* listeners config.source_chain.rpc_url (lines 83 and 93).
RunStart ==
    /\ rpc = "new"
    /\ running' = TRUE
    /\ listener_rpc_url' = [l \in Listeners |-> SourceRpcUrl]
    /\ UNCHANGED target_rpc_url
    /\ task' = [l \in Listeners |-> "created"]
    /\ rpc' = "sleep"
    /\ UNCHANGED <<listener_is_running, stop_called, loop_closed,
                   polled_after_return, relayer_processed_tx_hashes,
                   relayer_pending_pings, relayer_stored_hashes>>
    /\ UNCHANGED not_relayer

\* run lines 211-212 and 243-256: init_event_monitoring raises; the listeners
\* do not exist, the finally block has nothing to stop and run() raises.
RunInitFails ==
    /\ rpc = "new"
    /\ running' = TRUE
    /\ rpc' = "raised"
    /\ UNCHANGED <<task, listener_is_running, stop_called, loop_closed,
                   polled_after_return, relayer_processed_tx_hashes,
                   relayer_pending_pings, relayer_stored_hashes>>
    /\ UNCHANGED endpoints
    /\ UNCHANGED not_relayer

\* The finally block of run (lines 246-256): stop() on both listeners, which
\* sets their is_running to False, and run() returns.
RunFinally ==
    /\ listener_is_running' = [l \in Listeners |-> FALSE]
    /\ stop_called' = Listeners
    /\ rpc' = "returned"

\* Faulty variant: the test of task.done() is missing.
RunWakeIgnoresTasks ==
    /\ rpc = "sleep"
    /\ ~loop_closed
    /\ \A l \in Listeners : task[l] # "created"
    /\ IF ~running
       THEN RunFinally
       ELSE UNCHANGED <<rpc, listener_is_running, stop_called>>
    /\ UNCHANGED <<running, task, loop_closed, polled_after_return,
                   relayer_processed_tx_hashes, relayer_pending_pings,
                   relayer_stored_hashes>>
    /\ UNCHANGED endpoints
    /\ UNCHANGED not_relayer

\* run lines 233-241: the sleep of the main loop is over.  A finished task
\* breaks the loop, a cleared running flag ends it, otherwise run() sleeps
\* again.  The tasks are ready when run() suspends, so both have run up to
\* their first suspension before the sleep is over.
RunWake ==
    /\ rpc = "sleep"
    /\ ~loop_closed
    /\ \A l \in Listeners : task[l] # "created"
    /\ IF (\E l \in Listeners : TaskDone(l)) \/ ~running
       THEN RunFinally
       ELSE UNCHANGED <<rpc, listener_is_running, stop_called>>
    /\ UNCHANGED <<running, task, loop_closed, polled_after_return,
                   relayer_processed_tx_hashes, relayer_pending_pings,
                   relayer_stored_hashes>>
    /\ UNCHANGED endpoints
    /\ UNCHANGED not_relayer

\* stop (lines 260-262)
RelayerStop ==
    /\ running
    /\ running' = FALSE
    /\ UNCHANGED <<rpc, task, listener_is_running, stop_called, loop_closed,
                   polled_after_return, relayer_processed_tx_hashes,
                   relayer_pending_pings, relayer_stored_hashes>>
    /\ UNCHANGED endpoints
    /\ UNCHANGED not_relayer

\* A task runs for the first time: start_polling sets is_running, the initial
\* sync succeeds and the task reaches the loop.
TaskStart(l) ==
    /\ task[l] = "created"
    /\ ~loop_closed
    /\ listener_is_running' = [listener_is_running EXCEPT ![l] = TRUE]
    /\ task' = [task EXCEPT ![l] = "sleep"]
    /\ UNCHANGED <<running, rpc, stop_called, loop_closed, polled_after_return,
                   relayer_processed_tx_hashes, relayer_pending_pings,
                   relayer_stored_hashes>>
    /\ UNCHANGED endpoints
    /\ UNCHANGED not_relayer

\* The same with an RPC call of the initial sync raising: the task ends with
\* the exception.
TaskStartFails(l) ==
    /\ task[l] = "created"
    /\ ~loop_closed
    /\ listener_is_running' = [listener_is_running EXCEPT ![l] = TRUE]
    /\ task' = [task EXCEPT ![l] = "raised"]
    /\ UNCHANGED <<running, rpc, stop_called, loop_closed, polled_after_return,
                   relayer_processed_tx_hashes, relayer_pending_pings,
                   relayer_stored_hashes>>
    /\ UNCHANGED endpoints
    /\ UNCHANGED not_relayer

\* ROFLRelayer.process_ping_event (relayer.py lines 103-172)
RelayerProcessPingEvent(event) ==
    IF event.transactionHash \in relayer_processed_tx_hashes
    THEN UNCHANGED <<relayer_processed_tx_hashes, relayer_pending_pings>>
    ELSE /\ relayer_processed_tx_hashes' =
                relayer_processed_tx_hashes \cup {event.transactionHash}
         /\ relayer_pending_pings' =
                Append(relayer_pending_pings, RelayerPingOf(event))

\* The sleep of the ping listener's task is over; its poll finds one Ping log
\* and hands it to process_ping_event.
TaskPollPing(event) ==
    /\ task["ping_listener"] = "sleep"
    /\ ~loop_closed
    /\ RelayerProcessPingEvent(event)
    /\ task' = [task EXCEPT !["ping_listener"] = TaskLoopTop("ping_listener")]
    /\ polled_after_return' = PollNoted("ping_listener")
    /\ UNCHANGED <<running, rpc, listener_is_running, stop_called, loop_closed,
                   relayer_stored_hashes>>
    /\ UNCHANGED endpoints
    /\ UNCHANGED not_relayer

\* The sleep of the hash listener's task is over; its poll finds one
\* HashStored log and hands it to process_hash_stored (lines 174-202).  The
\* ROFLAdapter emits its logs on the chain behind TARGET_RPC_URL; the poll
\* finds them only if the listener queries that endpoint.
TaskPollHash(event) ==
    /\ task["hash_listener"] = "sleep"
    /\ ~loop_closed
    /\ listener_rpc_url["hash_listener"] = target_rpc_url
    /\ relayer_stored_hashes' =
           DictSet(relayer_stored_hashes, event.args.id, event.args.hash)
    /\ task' = [task EXCEPT !["hash_listener"] = TaskLoopTop("hash_listener")]
    /\ polled_after_return' = PollNoted("hash_listener")
    /\ UNCHANGED <<running, rpc, listener_is_running, stop_called, loop_closed,
                   relayer_processed_tx_hashes, relayer_pending_pings>>
    /\ UNCHANGED endpoints
    /\ UNCHANGED not_relayer

\* The sleep of a task is over and its poll finds no new log.
TaskPollNothing(l) ==
    /\ task[l] = "sleep"
    /\ ~loop_closed
    /\ task' = [task EXCEPT ![l] = TaskLoopTop(l)]
    /\ polled_after_return' = PollNoted(l)
    /\ UNCHANGED <<running, rpc, listener_is_running, stop_called, loop_closed,
                   relayer_processed_tx_hashes, relayer_pending_pings,
                   relayer_stored_hashes>>
    /\ UNCHANGED endpoints
    /\ UNCHANGED not_relayer

\* The event loop is shut down after run() has ended (asyncio.run in main.py
\* line 52): the tasks that are left are cancelled.
LoopClose ==
    /\ rpc \in {"returned", "raised"}
    /\ ~loop_closed
    /\ loop_closed' = TRUE
    /\ task' = [l \in Listeners |-> IF task[l] = "sleep" THEN "done" ELSE task[l]]
    /\ UNCHANGED <<running, rpc, listener_is_running, stop_called,
                   polled_after_return, relayer_processed_tx_hashes,
                   relayer_pending_pings, relayer_stored_hashes>>
    /\ UNCHANGED endpoints
    /\ UNCHANGED not_relayer

RelayerNext ==
    \/ RunStart
    \/ RunInitFails
    \/ RunWake
    \/ RelayerStop
    \/ \E l \in Listeners : TaskStart(l)
    \/ \E l \in Listeners : TaskStartFails(l)
    \/ \E event \in RelayerPingLogs : TaskPollPing(event)
    \/ \E event \in TargetLogs : TaskPollHash(event)
    \/ \E l \in Listeners : TaskPollNothing(l)
    \/ LoopClose

RelayerSpec == RelayerInit /\ [][RelayerNext]_vars

\* The event loop runs a task that is ready, and asyncio.sleep(10) of the
\* main loop ends and run() is resumed.
RelayerFairSpec ==
    /\ RelayerSpec
    /\ \A l \in Listeners : WF_vars(TaskStart(l) \/ TaskStartFails(l))
    /\ WF_vars(RunWake)

\* ---------------------------------------------------------------------------
\* EventProcessor._track_processed_hash (lines 184-200) called directly on
\* hashes of any kind, present ones included.
\* ---------------------------------------------------------------------------

TrackHashes == {"t1", "t2", "t3", "t4", "t5"}

TrackInit ==
    /\ ProcessorIdle
    /\ PingIdIdle
    /\ ListenerIdle
    /\ RelayerIdle
    /\ TrackIdle
    /\ RoflIdle
    /\ ProofIdle
    /\ OracleIdle
    /\ EncoderIdle
    /\ WsIdle

TrackCall(tx_hash) ==
    /\ processed_tx_hashes' = TrackProcessedHash(processed_tx_hashes, tx_hash)
    /\ track_call' = [tx_hash |-> tx_hash, before |-> processed_tx_hashes]
    /\ UNCHANGED <<pending_pings, pending_pings_order, stored_hashes, wiring, pc,
                   it_block, it_idx, it_attached, cur_ping, ping_call,
                   start_list, handed, results, accepted, submitted>>
    /\ UNCHANGED not_track

TrackNext == \E tx_hash \in TrackHashes : TrackCall(tx_hash)

TrackSpec == TrackInit /\ [][TrackNext]_vars

\* ---------------------------------------------------------------------------
\* utils/rofl_utility.py: RoflUtility.submit_tx and _decode_cbor_response.
\*
\* The daemon answers with a hex string.  A response is modelled by what the
\* two decoding steps make of it: the hex decoding fails, the CBOR decoding
\* fails, or a CBOR value comes out, which is a map or some other value.  A
\* map is a function from its keys to values.
\* ---------------------------------------------------------------------------

MaxSubmits == 2

CborKeys == {"ok", "error", "fail"}

\* CBOR maps with any keys of CborKeys and two kinds of values.
CborMaps == UNION { [S -> {"null", "text"}] : S \in SUBSET CborKeys }

\* CBOR values that are not maps.
CborScalars == {"integer", "text", "array", "null"}

Responses ==
    { [kind |-> "bad_hex", value |-> "none"], [kind |-> "bad_cbor", value |-> "none"] }
    \cup { [kind |-> "map", value |-> m] : m \in CborMaps }
    \cup { [kind |-> "scalar", value |-> v] : v \in CborScalars }

\* Faulty variant: an undecodable response is wrapped like a value that is
\* not a map.
DecodeCborResponseLenient(response_hex) ==
    IF response_hex.kind \in {"bad_hex", "bad_cbor"}
    THEN [data |-> "raw"]
    ELSE IF response_hex.kind = "map"
         THEN response_hex.value
         ELSE [data |-> response_hex.value]

\* _decode_cbor_response (lines 47-65)
DecodeCborResponse(response_hex) ==
    IF response_hex.kind \in {"bad_hex", "bad_cbor"}
    THEN [error |-> "decode_failed", raw |-> "raw"]
    ELSE IF response_hex.kind = "map"
         THEN response_hex.value
         ELSE [data |-> response_hex.value]

\* submit_tx lines 99-112: True, or an exception.
SubmitTxOutcome(response_hex) ==
    LET decoded_response == DecodeCborResponse(response_hex)
    IN IF "ok" \in DOMAIN decoded_response THEN "True"
       ELSE IF "error" \in DOMAIN decoded_response THEN "raised"
       ELSE "True"

RoflInit ==
    /\ ProcessorIdle
    /\ PingIdIdle
    /\ ListenerIdle
    /\ RelayerIdle
    /\ TrackIdle
    /\ rofl_log = <<>>
    /\ ProofIdle
    /\ OracleIdle
    /\ EncoderIdle
    /\ WsIdle

\* submit_tx (lines 67-112) with the daemon answering response_hex.
SubmitTx(response_hex) ==
    /\ Len(rofl_log) < MaxSubmits
    /\ rofl_log' = Append(rofl_log, [response |-> response_hex,
                                     outcome |-> SubmitTxOutcome(response_hex)])
    /\ UNCHANGED not_rofl

RoflNext == \E response_hex \in Responses : SubmitTx(response_hex)

RoflSpec == RoflInit /\ [][RoflNext]_vars

\* ---------------------------------------------------------------------------
\* proof_manager.py: ProofManager.generate_proof, submit_proof and
\* process_ping_event, and EventProcessor.process_matched_events which calls
\* them.
\*
\* The source chain holds one block with the ping's transaction.  Hashes are
\* modelled as tagged copies of what is hashed, so two hashes agree exactly
\* when their inputs do.  A network whose receipts or headers carry a field
\* the encoder does not know yields a canonical root or hash over more fields
\* than the encoder writes.
\* ---------------------------------------------------------------------------

MaxReceiptLogs == 2

\* A log of the receipt is the Ping log of the ping (topic0, sender and
\* block number match) or some other log.
LogKinds == {"ping", "other"}

ReceiptLogs == UNION { [1..n -> LogKinds] : n \in 0..MaxReceiptLogs }

Chains ==
    [available : {"all", "no_receipt", "no_block"},
     logs : ReceiptLogs,
     receipt_extra : BOOLEAN,
     header_extra : BOOLEAN,
     tx_index : {0, 1}]

\* The ping handed to process_matched_events: a models.PingEvent (models.py
\* lines 10-28), which has exactly these fields.
PingEventFields == {"tx_hash", "block_number", "sender", "timestamp", "ping_id"}

\* _encode_receipt (lines 227-264): the four fields it writes.
EncodeReceipt == <<"status", "cumulativeGasUsed", "logsBloom", "logs">>

\* The receipt as the network hashes it into receiptsRoot.
CanonicalReceipt(chain) ==
    IF chain.receipt_extra THEN Append(EncodeReceipt, "extra") ELSE EncodeReceipt

\* trie.root_hash over the encoded receipts (lines 73-87).
TrieRoot(encoded_receipt) == <<"root">> \o encoded_receipt

\* rlp.encode of the header fields the encoder knows (lines 284-330).
EncodeHeader(chain) == <<"legacy", "london", "shanghai", "cancun", "prague">>

\* The header as the network hashes it into the block hash.
CanonicalHeader(chain) ==
    IF chain.header_extra THEN Append(EncodeHeader(chain), "extra")
    ELSE EncodeHeader(chain)

Keccak(encoded) == <<"keccak">> \o encoded

\* rlp.encode of the transaction index (lines 95-96).
EncodeTxIndex(tx_index) == IF tx_index = 0 THEN "0x80" ELSE "0x01"

\* _encode_block_header lines 332-349: the warnings it logs.
HeaderWarnings(chain) ==
    IF Keccak(EncodeHeader(chain)) # Keccak(CanonicalHeader(chain))
    THEN {"header_hash_mismatch"}
    ELSE {}

\* Faulty variant: the trie root is not compared with receiptsRoot.
GenerateProofResultUnverified(chain, log_index) ==
    IF chain.available # "all"
    THEN [log_index |-> log_index, result |-> "raised", proof |-> <<>>]
    ELSE [log_index |-> log_index, result |-> "returned",
          proof |-> <<"chain_id", "block_number", EncodeHeader(chain), "0", "[]",
                      "merkle_proof", EncodeTxIndex(chain.tx_index), log_index>>]

\* generate_proof (lines 37-121): ValueError, or the eight-element proof.
GenerateProofResult(chain, log_index) ==
    IF chain.available # "all"
    THEN [log_index |-> log_index, result |-> "raised", proof |-> <<>>]
    ELSE IF TrieRoot(EncodeReceipt) # TrieRoot(CanonicalReceipt(chain))
    THEN [log_index |-> log_index, result |-> "raised", proof |-> <<>>]
    ELSE [log_index |-> log_index, result |-> "returned",
          proof |-> <<"chain_id", "block_number", EncodeHeader(chain), "0", "[]",
                      "merkle_proof", EncodeTxIndex(chain.tx_index), log_index>>]

ProofInit ==
    /\ ProcessorIdle
    /\ PingIdIdle
    /\ ListenerIdle
    /\ RelayerIdle
    /\ TrackIdle
    /\ RoflIdle
    /\ pm_chain \in Chains
    /\ pm_mode \in {"local", "rofl"}
    /\ pm_generate = [log_index |-> 0, result |-> "none", proof |-> <<>>]
    /\ pm_submit = "none"
    /\ pm_tx = "none"
    /\ pm_warnings = {}
    /\ pm_matched = "none"
    /\ pm_ping_pending = TRUE
    /\ OracleIdle
    /\ EncoderIdle
    /\ WsIdle

\* generate_proof(tx_hash, log_index) (lines 37-121).
GenerateProof(log_index) ==
    /\ pm_generate.result = "none"
    /\ pm_generate' = GenerateProofResult(pm_chain, log_index)
    /\ pm_warnings' = IF pm_generate'.result = "returned"
                      THEN HeaderWarnings(pm_chain)
                      ELSE pm_warnings
    /\ UNCHANGED <<pm_chain, pm_mode, pm_submit, pm_tx, pm_matched, pm_ping_pending>>
    /\ UNCHANGED not_proof

\* submit_proof in local mode (lines 170-177): transact() broadcasts the
\* transaction and its hash is returned.
SubmitProofLocal ==
    /\ pm_mode = "local"
    /\ pm_generate.result = "returned"
    /\ pm_submit = "none"
    /\ pm_tx' = "broadcast"
    /\ pm_submit' = "returned"
    /\ UNCHANGED <<pm_chain, pm_mode, pm_generate, pm_warnings, pm_matched,
                   pm_ping_pending>>
    /\ UNCHANGED not_proof

\* submit_proof in local mode when transact() raises.
SubmitProofLocalFails ==
    /\ pm_mode = "local"
    /\ pm_generate.result = "returned"
    /\ pm_submit = "none"
    /\ pm_submit' = "raised"
    /\ UNCHANGED <<pm_chain, pm_mode, pm_generate, pm_tx, pm_warnings, pm_matched,
                   pm_ping_pending>>
    /\ UNCHANGED not_proof

\* submit_proof in ROFL mode (lines 159-169): the outcome of
\* rofl_util.submit_tx for the daemon's response.
SubmitProofRofl(response_hex) ==
    /\ pm_mode = "rofl"
    /\ pm_generate.result = "returned"
    /\ pm_submit = "none"
    /\ pm_tx' = "rofl"
    /\ pm_submit' = IF SubmitTxOutcome(response_hex) = "True" THEN "returned"
                    ELSE "raised"
    /\ UNCHANGED <<pm_chain, pm_mode, pm_generate, pm_warnings, pm_matched,
                   pm_ping_pending>>
    /\ UNCHANGED not_proof

\* The target chain mines the broadcast transaction: the verifier accepts the
\* proof or reverts.
ReceiptArrives(status) ==
    /\ pm_tx = "broadcast"
    /\ pm_tx' = status
    /\ UNCHANGED <<pm_chain, pm_mode, pm_generate, pm_submit, pm_warnings,
                   pm_matched, pm_ping_pending>>
    /\ UNCHANGED not_proof

\* EventProcessor.process_matched_events (event_processor.py lines 202-237)
\* for the matched models.PingEvent.  ProofManager.process_ping_event reads
\* ping_event.log_index (line 191), which a PingEvent does not have: the
\* AttributeError is caught at line 236 and logged, and the ping stays.
ProcessMatchedEvents ==
    /\ pm_matched = "none"
    /\ IF "log_index" \in PingEventFields
       THEN /\ pm_generate.result = "none"
            /\ pm_generate' = GenerateProofResult(pm_chain, 0)
            /\ pm_warnings' = IF pm_generate'.result = "returned"
                              THEN HeaderWarnings(pm_chain)
                              ELSE pm_warnings
            /\ \E sent \in BOOLEAN :
                 LET ok == pm_generate'.result = "returned" /\ sent
                 IN /\ pm_submit' = IF pm_generate'.result # "returned" THEN "none"
                                    ELSE IF sent THEN "returned" ELSE "raised"
                    /\ pm_tx' = IF ok THEN (IF pm_mode = "local" THEN "broadcast" ELSE "rofl")
                                ELSE pm_tx
                    /\ pm_matched' = IF ok THEN "removed" ELSE "error_logged"
                    /\ pm_ping_pending' = ~ok
       ELSE /\ pm_matched' = "error_logged"
            /\ UNCHANGED <<pm_generate, pm_warnings, pm_submit, pm_tx, pm_ping_pending>>
    /\ UNCHANGED <<pm_chain, pm_mode>>
    /\ UNCHANGED not_proof

ProofNext ==
    \/ \E log_index \in 0..MaxLogIndex : GenerateProof(log_index)
    \/ SubmitProofLocal
    \/ SubmitProofLocalFails
    \/ \E response_hex \in Responses : SubmitProofRofl(response_hex)
    \/ \E status \in {"success", "reverted"} : ReceiptArrives(status)
    \/ ProcessMatchedEvents

ProofSpec == ProofInit /\ [][ProofNext]_vars

\* ---------------------------------------------------------------------------
\* rofl-oracle event_processor.py: EventProcessor.process_event.
\*
\* A raw event is described by the container it arrives in, its topics, the
\* way its transaction hash is written and its logIndex.  None is the remaining
\* input.
\* ---------------------------------------------------------------------------

dedupe_window == 2

MaxCalls == 3

source_chain_id == 1

\* A logIndex that cannot be hashed (a list).
Unhashable == -1

\* Events with the three topics of BlockHeaderRequested.
WellFormedEvents ==
    [container : {"dict", "EventData"},
     topics : {"three"},
     chain_id : {1, 2},
     block_number : {1, 2},
     tx : {"aa", "bb"},
     tx_repr : {"bytes", "hex", "0xhex"},
     logIndex : {0, Unhashable}]

\* Events with fewer than three topics, or with a topic that is not hex.
MalformedEvents ==
    [container : {"dict", "EventData"},
     topics : {"short", "bad_hex"},
     chain_id : {1},
     block_number : {1},
     tx : {"aa"},
     tx_repr : {"hex"},
     logIndex : {0}]

RawEvents == WellFormedEvents \cup MalformedEvents

\* None read through getattr with its defaults (lines 130-141): no topics, block
\* 0, an empty transaction hash, logIndex 0.
NoneEvent ==
    [container |-> "None", topics |-> "short",
     chain_id |-> 0, block_number |-> 0, tx |-> "", tx_repr |-> "bytes",
     logIndex |-> 0]

EventInputs == RawEvents \cup {NoneEvent}

\* Transaction hash normalisation of _parse_event_data (lines 125, 135-139,
\* 156-160): bytes are written as hex, and a missing 0x prefix is added.
NormalizeTxHash(container, tx_repr, tx) ==
    LET as_text == IF tx_repr = "bytes"
                   THEN IF container = "EventData"
                        THEN [prefix |-> FALSE, hex |-> tx]
                        ELSE [prefix |-> TRUE, hex |-> tx]
                   ELSE [prefix |-> tx_repr = "0xhex", hex |-> tx]
    IN [prefix |-> TRUE, hex |-> as_text.hex]

\* _parse_event_data (lines 107-175): the BlockHeaderEvent, or nothing after
\* counting the event as invalid.  The result is a sequence of at most one
\* event.
ParseEventData(event_data) ==
    IF event_data.topics # "three" THEN <<>>
    ELSE <<[chain_id |-> event_data.chain_id,
          block_number |-> event_data.block_number,
          transaction_hash |-> NormalizeTxHash(event_data.container,
                                               event_data.tx_repr, event_data.tx),
          log_index |-> event_data.logIndex]>>

\* BlockHeaderEvent.unique_key (models.py lines 59-71)
UniqueKey(event) ==
    <<event.chain_id, event.block_number, event.transaction_hash, event.log_index>>

\* _should_process_chain (lines 217-232)
ShouldProcessChain(chain_id) == chain_id = source_chain_id

\* Faulty variant: the key is moved to the end of the cache when it is looked
\* up.
IsDuplicateTouching(cache, event) ==
    [found |-> \E i \in 1..Len(cache) : cache[i] = UniqueKey(event),
     cache |-> IF \E i \in 1..Len(cache) : cache[i] = UniqueKey(event)
               THEN Append(SelectSeq(cache, LAMBDA k : k # UniqueKey(event)),
                           UniqueKey(event))
               ELSE cache]

\* _is_duplicate (lines 234-246): the answer, and the cache after the lookup.
IsDuplicate(cache, event) ==
    [found |-> \E i \in 1..Len(cache) : cache[i] = UniqueKey(event),
     cache |-> cache]

\* Faulty variant: nothing is evicted from a full cache.
MarkProcessedUnbounded(cache, event) ==
    LET event_key == UniqueKey(event)
    IN IF \E i \in 1..Len(cache) : cache[i] = event_key
       THEN Append(SelectSeq(cache, LAMBDA k : k # event_key), event_key)
       ELSE Append(cache, event_key)

\* _mark_processed (lines 248-269)
MarkProcessed(cache, event) ==
    LET event_key == UniqueKey(event)
    IN IF \E i \in 1..Len(cache) : cache[i] = event_key
       THEN Append(SelectSeq(cache, LAMBDA k : k # event_key), event_key)
       ELSE IF Len(cache) >= dedupe_window
            THEN Append(Tail(cache), event_key)
            ELSE Append(cache, event_key)

\* get_metrics (lines 271-283)
GetMetrics ==
    [events_processed |-> events_processed,
     events_filtered |-> events_filtered,
     events_duplicated |-> events_duplicated,
     events_invalid |-> events_invalid,
     processed_events |-> processed_events]

OracleInit ==
    /\ ProcessorIdle
    /\ PingIdIdle
    /\ ListenerIdle
    /\ RelayerIdle
    /\ TrackIdle
    /\ RoflIdle
    /\ ProofIdle
    /\ processed_events = <<>>
    /\ events_processed = 0
    /\ events_filtered = 0
    /\ events_duplicated = 0
    /\ events_invalid = 0
    /\ oracle_call = <<>>
    /\ EncoderIdle
    /\ WsIdle

\* What one process_event call adds to each metric, what it returns, and the
\* cache it leaves.
CallOutcome(processed, filtered, duplicated, invalid, returned, cache) ==
    [processed |-> processed, filtered |-> filtered, duplicated |-> duplicated,
     invalid |-> invalid, returned |-> returned, cache |-> cache]

\* Faulty variant: an exception raised after parsing is swallowed without
\* being counted.
ProcessEventOutcomeUncounted(event_data, cache) ==
    LET parsed == ParseEventData(event_data)
        parsed_event == parsed[1]
    IN IF parsed = <<>>
       THEN CallOutcome(0, 0, 0, 1, <<>>, cache)
       ELSE IF ~ShouldProcessChain(parsed_event.chain_id)
       THEN CallOutcome(0, 1, 0, 0, <<>>, cache)
       ELSE IF parsed_event.log_index = Unhashable
       THEN CallOutcome(0, 0, 0, 0, <<>>, cache)
       ELSE IF IsDuplicate(cache, parsed_event).found
       THEN CallOutcome(0, 0, 1, 0, <<>>, IsDuplicate(cache, parsed_event).cache)
       ELSE CallOutcome(1, 0, 0, 0, <<parsed_event>>, MarkProcessed(cache, parsed_event))

\* process_event (lines 61-105) on a given cache.
ProcessEventOutcome(event_data, cache) ==
    LET parsed == ParseEventData(event_data)
        parsed_event == parsed[1]
    IN IF parsed = <<>>
       THEN \* lines 77-78; counted in _parse_event_data (lines 146, 174)
            CallOutcome(0, 0, 0, 1, <<>>, cache)
       ELSE IF ~ShouldProcessChain(parsed_event.chain_id)
       THEN \* lines 81-87
            CallOutcome(0, 1, 0, 0, <<>>, cache)
       ELSE IF parsed_event.log_index = Unhashable
       THEN \* the lookup of line 246 raises TypeError: lines 102-105
            CallOutcome(0, 0, 0, 1, <<>>, cache)
       ELSE IF IsDuplicate(cache, parsed_event).found
       THEN \* lines 90-93
            CallOutcome(0, 0, 1, 0, <<>>, IsDuplicate(cache, parsed_event).cache)
       ELSE \* lines 95-100
            CallOutcome(1, 0, 0, 0, <<parsed_event>>, MarkProcessed(cache, parsed_event))

\* One call of process_event (lines 61-105).
ProcessEvent(event_data) ==
    LET outcome == ProcessEventOutcome(event_data, processed_events)
    IN /\ events_processed + events_filtered + events_duplicated + events_invalid
            < MaxCalls
       /\ events_processed' = events_processed + outcome.processed
       /\ events_filtered' = events_filtered + outcome.filtered
       /\ events_duplicated' = events_duplicated + outcome.duplicated
       /\ events_invalid' = events_invalid + outcome.invalid
       /\ processed_events' = outcome.cache
       /\ oracle_call' = <<[event_data |-> event_data, returned |-> outcome.returned,
                            before |-> GetMetrics]>>
       /\ UNCHANGED not_oracle

OracleNext == \E event_data \in EventInputs : ProcessEvent(event_data)

OracleSpec == OracleInit /\ [][OracleNext]_vars

\* ---------------------------------------------------------------------------
\* utils/blockchain_encoder.py: encode_block_header and
\* encode_transaction_index, and their copies in proof_manager.py.
\*
\* An optional header field is absent from the block, null, or holds a value;
\* an integer field may hold 0.  Bytes are numbers 0..255 and a hex string is
\* the sequence of its digits 0..15 after the 0x.
\* ---------------------------------------------------------------------------

MaxTxIndex == 300

LegacyFields ==
    <<"parentHash", "sha3Uncles", "miner", "stateRoot", "transactionsRoot",
      "receiptsRoot", "logsBloom", "difficulty", "number", "gasLimit", "gasUsed",
      "timestamp", "extraData", "mixHash", "nonce">>

\* The blocks an RPC endpoint can answer with: a hash field that is there is
\* 32 bytes long.
Blocks ==
    { b \in [OptionalFields -> {"absent", "null", "zero", "value"}] :
        \A f \in HashFields : b[f] # "zero" }

\* 'name' in block and block['name'] is not None
IsPresent(block, name) == block[name] \in {"zero", "value"}

\* block.get(name): None for an absent field.
BlockGet(block, name) == IF block[name] = "absent" THEN "null" ELSE block[name]

\* Python's a or b on field values: 0 and None are false.
PyOr(a, b) == IF a = "value" THEN a ELSE b

\* Faulty variant: fields are tested for truth, not for None.
AppendIfPresentTruthy(header_fields, block, name) ==
    IF block[name] = "value" THEN Append(header_fields, <<name, block[name]>>)
    ELSE header_fields

\* One conditional append of add_*_fields (lines 139-140, 152-153, 165-174).
AppendIfPresent(header_fields, block, name) ==
    IF IsPresent(block, name) THEN Append(header_fields, <<name, block[name]>>)
    ELSE header_fields

\* add_prague_fields (lines 177-188)
AddPragueFields(header_fields, block) ==
    LET requests_field == PyOr(BlockGet(block, "requestsRoot"),
                               BlockGet(block, "requestsHash"))
        name == IF BlockGet(block, "requestsRoot") = "value" THEN "requestsRoot"
                ELSE "requestsHash"
    IN IF requests_field # "null" THEN Append(header_fields, <<name, requests_field>>)
       ELSE header_fields

\* encode_block_header (lines 191-220): the list handed to rlp.encode.
HeaderFields(block) ==
    LET legacy == [i \in 1..Len(LegacyFields) |-> <<LegacyFields[i], "value">>]
        london == AppendIfPresent(legacy, block, "baseFeePerGas")
        shanghai == AppendIfPresent(london, block, "withdrawalsRoot")
        cancun == AppendIfPresent(
                      AppendIfPresent(
                          AppendIfPresent(shanghai, block, "blobGasUsed"),
                          block, "excessBlobGas"),
                      block, "parentBeaconBlockRoot")
    IN AddPragueFields(cancun, block)

\* Big-endian bytes of a positive integer, without leading zeros.
RECURSIVE BigEndian(_)
BigEndian(n) == IF n = 0 THEN <<>> ELSE Append(BigEndian(n \div 256), n % 256)

\* rlp.encode of a byte string shorter than 56 bytes.
RlpEncodeBytes(bytes) ==
    IF Len(bytes) = 1 /\ bytes[1] < 128 THEN bytes
    ELSE <<128 + Len(bytes)>> \o bytes

\* rlp.encode of an integer: its big-endian bytes as a byte string.
RlpEncodeInt(n) == RlpEncodeBytes(BigEndian(n))

\* Faulty variant: index 0 is given to the integer encoder as a zero byte.
EncodeTransactionIndexZeroByte(tx_index) ==
    IF tx_index = 0 THEN RlpEncodeBytes(<<0>>) ELSE RlpEncodeInt(tx_index)

\* encode_transaction_index (lines 39-56); proof_manager.py lines 78, 96.
EncodeTransactionIndex(tx_index) ==
    IF tx_index = 0 THEN RlpEncodeBytes(<<>>) ELSE RlpEncodeInt(tx_index)

\* Web3.to_hex of bytes (proof_manager.py line 116): two digits per byte.
RECURSIVE ToHex(_)
ToHex(bytes) ==
    IF bytes = <<>> THEN <<>>
    ELSE <<bytes[1] \div 16, bytes[1] % 16>> \o ToHex(Tail(bytes))

HeaderInit ==
    /\ ProcessorIdle
    /\ PingIdIdle
    /\ ListenerIdle
    /\ RelayerIdle
    /\ TrackIdle
    /\ RoflIdle
    /\ ProofIdle
    /\ OracleIdle
    /\ enc_block \in Blocks
    /\ enc_header = <<>>
    /\ enc_tx_index = 0
    /\ enc_key = <<>>
    /\ enc_field = <<>>
    /\ WsIdle

\* encode_block_header (lines 191-220) on the block.
EncodeBlockHeader ==
    /\ enc_header = <<>>
    /\ enc_header' = HeaderFields(enc_block)
    /\ UNCHANGED <<enc_block, enc_tx_index, enc_key, enc_field>>
    /\ UNCHANGED not_encoder

HeaderNext == EncodeBlockHeader

HeaderSpec == HeaderInit /\ [][HeaderNext]_vars

TxIndexInit ==
    /\ ProcessorIdle
    /\ PingIdIdle
    /\ ListenerIdle
    /\ RelayerIdle
    /\ TrackIdle
    /\ RoflIdle
    /\ ProofIdle
    /\ OracleIdle
    /\ enc_block = [f \in OptionalFields |-> "absent"]
    /\ enc_header = <<>>
    /\ enc_tx_index \in 0..MaxTxIndex
    /\ enc_key = <<>>
    /\ enc_field = <<>>
    /\ WsIdle

\* generate_proof lines 75-84: the receipt is put into the trie under its key.
PutReceipt ==
    /\ enc_key = <<>>
    /\ enc_key' = EncodeTransactionIndex(enc_tx_index)
    /\ UNCHANGED <<enc_block, enc_header, enc_tx_index, enc_field>>
    /\ UNCHANGED not_encoder

\* generate_proof lines 95-96 and 116: the transactionIndex field of the proof.
EmitTransactionIndex ==
    /\ enc_key # <<>>
    /\ enc_field = <<>>
    /\ enc_field' = ToHex(EncodeTransactionIndex(enc_tx_index))
    /\ UNCHANGED <<enc_block, enc_header, enc_tx_index, enc_key>>
    /\ UNCHANGED not_encoder

TxIndexNext == PutReceipt \/ EmitTransactionIndex

TxIndexSpec == TxIndexInit /\ [][TxIndexNext]_vars

\* ---------------------------------------------------------------------------
\* rofl-oracle utils/event_listener_utility.py:
\* EventListenerUtility._websocket_listener.
\*
\* The coroutine is suspended while it connects, while it handles
\* subscriptions and while it sleeps; each action runs it from one of these
\* points to the next.
\* ---------------------------------------------------------------------------

max_retries == 7

MaxAttempts == 12

base_delay == 1

max_delay == 60

Min(a, b) == IF a < b THEN a ELSE b

\* Faulty variant: the delay is not capped.
RetryDelayUncapped(count) == base_delay * (2 ^ count)

\* Line 152
RetryDelay(count) == Min(base_delay * (2 ^ count), max_delay)

WsInit ==
    /\ ProcessorIdle
    /\ PingIdIdle
    /\ ListenerIdle
    /\ RelayerIdle
    /\ TrackIdle
    /\ RoflIdle
    /\ ProofIdle
    /\ OracleIdle
    /\ EncoderIdle
    /\ WsIdle

\* Lines 110-122: the loop test, CONNECTING, and the connection attempt.
WsConnecting ==
    /\ ws_attempts < MaxAttempts
    /\ ws_attempts' = ws_attempts + 1
    /\ ws_pc' = "connecting"
    /\ connection_state' = "connecting"

\* listen_for_contract_events (lines 87-104) up to the first connection
\* attempt.
ListenForContractEvents ==
    /\ ws_pc = "idle"
    /\ retry_count' = 0
    /\ WsConnecting
    /\ UNCHANGED <<ws_delay, ws_errors_in_row, ws_errors_since_connected>>
    /\ UNCHANGED not_ws

\* Lines 150-165: the handler of ConnectionError and OSError.
WsHandleError ==
    /\ retry_count' = retry_count + 1
    /\ ws_errors_in_row' = ws_errors_in_row + 1
    /\ ws_errors_since_connected' = ws_errors_since_connected + 1
    /\ IF retry_count' < max_retries
       THEN /\ connection_state' = "reconnecting"
            /\ ws_delay' = RetryDelay(retry_count')
            /\ ws_pc' = "sleeping"
       ELSE /\ connection_state' = "failed"
            /\ ws_pc' = "raised"
            /\ UNCHANGED ws_delay
    /\ UNCHANGED ws_attempts

\* The connection attempt of lines 116-122 raises ConnectionError or OSError.
ConnectFails ==
    /\ ws_pc = "connecting"
    /\ WsHandleError
    /\ UNCHANGED not_ws

\* Lines 123-145: connected, subscribed, handling subscriptions.
ConnectOk ==
    /\ ws_pc = "connecting"
    /\ ws_pc' = "connected"
    /\ connection_state' = "connected"
    /\ ws_errors_since_connected' = 0
    /\ UNCHANGED <<retry_count, ws_delay, ws_attempts, ws_errors_in_row>>
    /\ UNCHANGED not_ws

\* subscribe or handle_subscriptions (lines 142-145) raises ConnectionError or
\* OSError: the connection dropped.
SessionDrops ==
    /\ ws_pc = "connected"
    /\ WsHandleError
    /\ UNCHANGED not_ws

\* handle_subscriptions returns (lines 145-148) and the loop connects again.
SessionEnds ==
    /\ ws_pc = "connected"
    /\ retry_count' = 0
    /\ ws_errors_in_row' = 0
    /\ WsConnecting
    /\ UNCHANGED <<ws_delay, ws_errors_since_connected>>
    /\ UNCHANGED not_ws

\* asyncio.sleep(delay) of line 161 returns and the loop connects again.
WsWake ==
    /\ ws_pc = "sleeping"
    /\ retry_count < max_retries
    /\ WsConnecting
    /\ UNCHANGED <<retry_count, ws_delay, ws_errors_in_row, ws_errors_since_connected>>
    /\ UNCHANGED not_ws

WsNext ==
    \/ ListenForContractEvents
    \/ ConnectFails
    \/ ConnectOk
    \/ SessionDrops
    \/ SessionEnds
    \/ WsWake

WsSpec == WsInit /\ [][WsNext]_vars

\* ---------------------------------------------------------------------------
\* EventProcessor.process_ping_event on logs whose fields cannot be read.
\* ---------------------------------------------------------------------------

\* The Ping logs, and each of them delivered with args set to None.
AcceptLogs ==
    SourceLogs \cup { [log EXCEPT !.args = NoPing] :
                        log \in { l \in SourceLogs : l.transactionHash # None } }

AcceptInit ==
    /\ ProcessorIdle
    /\ PingIdIdle
    /\ ListenerIdle
    /\ RelayerIdle
    /\ TrackIdle
    /\ RoflIdle
    /\ ProofIdle
    /\ OracleIdle
    /\ EncoderIdle
    /\ WsIdle

AcceptNext == \E event \in AcceptLogs : ProcessPingEvent(event)

AcceptSpec == AcceptInit /\ [][AcceptNext]_vars

\* ---------------------------------------------------------------------------
\* Observations used by the properties
\* ---------------------------------------------------------------------------

\* get_stats (lines 239-250)
GetStats ==
    [processed_hashes |-> Len(processed_tx_hashes),
     pending_pings    |-> Len(pending_pings_order),
     stored_hashes    |-> Len(stored_hashes)]

TableSlots(pp) == UNION { { <<k, i>> : i \in 1..Len(pp[k]) } : k \in DOMAIN pp }

TableCount(pp, p) == Cardinality({ s \in TableSlots(pp) : pp[s[1]][s[2]] = p })

IsPending(p) == Count(pending_pings_order, p) > 0 \/ TableCount(pending_pings, p) > 0

\* This step is the end of a proof_manager call with the given outcome.
Outcome(kind) ==
    /\ Len(results') = Len(results) + 1
    /\ results'[Len(results')] = kind

\* This step takes a copy of p out of the table or out of the queue.
Removes(p) ==
    \/ Count(pending_pings_order', p) < Count(pending_pings_order, p)
    \/ TableCount(pending_pings', p) < TableCount(pending_pings, p)


\* ---------------------------------------------------------------------------
\* Properties
\* ---------------------------------------------------------------------------

\* C1: whenever EventProcessor hands a ping to the proof manager, an
\* attestation whose block id equals the ping's block_number is in
\* stored_hashes, before and after the hand-off step.
C1_DispatchGated ==
    [][Len(handed') > Len(handed) =>
          LET ping == handed'[Len(handed')]
          IN ping.block_number \in StoredBlocks /\ ping.block_number \in StoredBlocks']_vars

\* A hand-off is suspended while stored_hashes is full.
C1_Witness ==
    /\ pc = "await"
    /\ cur_ping.block_number \in StoredBlocks
    /\ Len(stored_hashes) = MAX_STORED_HASHES

\* C2: when a call of process_hash_stored has returned, every ping that was
\* in pending_pings[N] when it started has been handed to the proof manager
\* exactly once during the call.
C2_AllMatchedHandedOnce ==
    (pc = "idle" /\ Wired) =>
        \A p \in AllPings : Count(handed, p) = Count(start_list, p)

\* C3: the per-block table and the FIFO queue hold the same pings, each as
\* often in one as in the other; the pending_pings statistic is the number of
\* pings in the table; no key of the table maps to an empty list.
C3_TableMatchesQueue ==
    /\ \A p \in AllPings :
           TableCount(pending_pings, p) = Count(pending_pings_order, p)
    /\ GetStats.pending_pings = Cardinality(TableSlots(pending_pings))
    /\ \A k \in DOMAIN pending_pings : pending_pings[k] # <<>>

\* A ping was submitted and removed while the other pings stayed pending in
\* both structures.
C3_Witness ==
    /\ \E i \in 1..Len(results) : results[i] = "ok" /\ ~IsPending(handed[i])
    /\ Len(pending_pings_order) = MAX_PENDING_PINGS
    /\ Cardinality(DOMAIN pending_pings) = 2

OnlyAccepted(p) == accepted[p] = 1 /\ \A q \in AllPings \ {p} : accepted[q] = 0

\* C5: happy path.  One ping was accepted, an attestation for its block was
\* handled and no call to the chain or the signer failed: then one submission
\* was made for the ping and the ping is no longer pending.
C5_HappyPath ==
    (/\ pc = "idle" /\ Wired
     /\ Len(start_list) = 1
     /\ OnlyAccepted(start_list[1])
     /\ ~Contains(results, "fail"))
    => (submitted[start_list[1]] = 1 /\ ~IsPending(start_list[1]))

\* C6 as stated: a ping leaves the table or the queue only in the step in
\* which its submission reports success.
C6_RemovedOnlyAfterSuccess ==
    [][\A p \in AllPings : Removes(p) => (Outcome("ok") /\ cur_ping = p)]_vars

\* C6 amended: a ping leaves the table or the queue only in the step in which
\* its submission reports success, or as the oldest ping of a full queue in
\* the step in which process_ping_event accepts a new ping.
C6_RemovedOnSuccessOrEviction ==
    [][\A p \in AllPings :
          Removes(p) =>
             \/ Outcome("ok") /\ cur_ping = p
             \/ /\ Len(pending_pings_order) >= MAX_PENDING_PINGS
                /\ p = Head(pending_pings_order)
                /\ accepted' # accepted
                /\ ping_call'.ret # NoPing]_vars

\* One ping left after its submission succeeded and another was evicted
\* without ever being submitted.
C6_Witness ==
    /\ \E i \in 1..Len(results) : results[i] = "ok" /\ ~IsPending(handed[i])
    /\ \E q \in AllPings : accepted[q] > 0 /\ submitted[q] = 0 /\ ~IsPending(q)

\* C7: when the proof manager call for a matched ping raises, the handler
\* goes on with its loop and the four collections are as they were.
C7_FailureKeepsPing ==
    [][(Outcome("fail") \/ Outcome("attr_error")) =>
          (pc' = "loop" /\ UNCHANGED structures)]_vars

\* process_hash_stored has returned after a failed submission and the ping
\* is still in the table and in the queue.
C7_Witness ==
    /\ pc = "idle"
    /\ \E i \in 1..Len(results) :
          /\ results[i] = "fail"
          /\ Count(pending_pings_order, handed[i]) > 0
          /\ TableCount(pending_pings, handed[i]) > 0

\* C8: a pending ping whose block is attested, and that the last call of
\* process_hash_stored did not hand over, is eventually handed to the proof
\* manager, unless it leaves the pending table first.
C8_SweepRetries ==
    \A p \in AllPings :
        (/\ pc = "idle" /\ Wired
         /\ IsPending(p)
         /\ p.block_number \in StoredBlocks
         /\ ~Contains(handed, p))
        ~> (Contains(handed, p) \/ ~IsPending(p))

\* C9: an attestation for a block without pending pings starts no hand-off,
\* and a ping that arrives for an attested block is appended to the table and
\* the queue without any hand-off or submission.
C9_OutOfOrder ==
    [][/\ \A e \in TargetLogs :
            (ProcessHashStored(e) /\ e.args.id \notin DOMAIN pending_pings) =>
                (pc' = "idle" /\ handed' = <<>> /\ results' = <<>>
                 /\ submitted' = submitted)
       /\ \A e \in SourceLogs :
            (/\ ProcessPingEvent(e)
             /\ ping_call'.ret # NoPing
             /\ e.blockNumber \in StoredBlocks) =>
                (/\ pending_pings_order'[Len(pending_pings_order')] = PingOf(e)
                 /\ e.blockNumber \in DOMAIN pending_pings'
                 /\ LET block_pings == pending_pings'[e.blockNumber]
                    IN block_pings[Len(block_pings)] = PingOf(e)
                 /\ pc' = pc /\ handed' = handed /\ results' = results
                 /\ submitted' = submitted)]_vars

\* The attestation came first: the only ping ever accepted is pending, its
\* block is attested, and nothing was handed over or submitted.
C9_Witness ==
    /\ pc = "idle" /\ Wired
    /\ ping_call.ret # NoPing
    /\ OnlyAccepted(ping_call.ret)
    /\ ping_call.ret.block_number \in StoredBlocks
    /\ IsPending(ping_call.ret)
    /\ handed = <<>>
    /\ \A p \in AllPings : submitted[p] = 0

\* C10: process_ping_event on a log whose tx hash is in processed_tx_hashes
\* returns None and changes none of the four collections, creates no ping and
\* causes no hand-off or submission; and a ping is never submitted more often
\* than process_ping_event created it.
C10_DuplicateIsNoOp ==
    /\ [][\A e \in SourceLogs :
             (/\ ProcessPingEvent(e)
              /\ e.transactionHash # None
              /\ Contains(processed_tx_hashes, e.transactionHash)) =>
                 (/\ ping_call'.ret = NoPing
                  /\ UNCHANGED structures
                  /\ UNCHANGED <<accepted, handed, results, submitted, pc>>)]_vars
    /\ [](\A p \in AllPings : submitted[p] <= accepted[p])

\* The log of a ping that was created once and submitted once is delivered
\* again while its tx hash is still tracked.
C10_Witness ==
    /\ ping_call.event # NoPing
    /\ ping_call.ret = NoPing
    /\ ping_call.event.transactionHash # None
    /\ LET p == PingOf(ping_call.event)
       IN /\ accepted[p] = 1
          /\ submitted[p] = 1
          /\ Contains(processed_tx_hashes, p.tx_hash)

\* C11: a call of process_hash_stored whose block id is the block_number of
\* no pending ping records the attestation in stored_hashes, hands nothing to
\* the proof manager and submits nothing, and leaves pending_pings,
\* pending_pings_order and processed_tx_hashes as they were.
C11_UnmatchedAttestationOnlyStored ==
    [][\A e \in TargetLogs :
          (/\ ProcessHashStored(e)
           /\ \A i \in 1..Len(pending_pings_order) :
                  pending_pings_order[i].block_number # e.args.id) =>
              (/\ \E i \in 1..Len(stored_hashes') :
                      stored_hashes'[i] = <<e.args.id, e.args.hash>>
               /\ pc' = "idle" /\ cur_ping' = cur_ping
               /\ handed' = <<>> /\ results' = <<>>
               /\ submitted' = submitted
               /\ UNCHANGED <<pending_pings, pending_pings_order,
                              processed_tx_hashes>>)]_vars

\* A wired processor has recorded attestations, the last call found no match,
\* and every pending ping waits for a block that is not attested.
C11_Witness ==
    /\ Wired /\ pc = "idle"
    /\ stored_hashes # <<>>
    /\ start_list = <<>> /\ handed = <<>>
    /\ pending_pings_order # <<>>
    /\ \A i \in 1..Len(pending_pings_order) :
           pending_pings_order[i].block_number \notin StoredBlocks

RECURSIVE SumOver(_, _)
SumOver(f, S) ==
    IF S = {} THEN 0
    ELSE LET x == CHOOSE y \in S : TRUE IN f[x] + SumOver(f, S \ {x})

\* By how many copies of p the table qq differs from the table pp.
TableChange(pp, qq, p) == TableCount(qq, p) - TableCount(pp, p)

\* C12: eviction at capacity is first in, first out.  A process_ping_event
\* that accepts a ping while the queue holds MAX_PENDING_PINGS entries removes
\* exactly the head of the queue, from the queue and from the table, and puts
\* the new ping at the tail; below capacity it removes nothing.  While no
\* attestation has arrived, the queue holds as many pings as were accepted,
\* up to MAX_PENDING_PINGS.
C12_FifoEviction ==
    /\ [][\A e \in SourceLogs :
             (ProcessPingEvent(e) /\ ping_call'.ret # NoPing) =>
                 LET new == ping_call'.ret
                     full == Len(pending_pings_order) >= MAX_PENDING_PINGS
                     old == Head(pending_pings_order)
                 IN /\ pending_pings_order' =
                          Append(IF full THEN Tail(pending_pings_order)
                                 ELSE pending_pings_order, new)
                    /\ \A p \in AllPings :
                          TableChange(pending_pings, pending_pings', p) =
                              (IF p = new THEN 1 ELSE 0)
                              - (IF full /\ p = old THEN 1 ELSE 0)]_vars
    /\ [](stored_hashes = <<>> =>
             LET n == SumOver(accepted, AllPings)
             IN Len(pending_pings_order) =
                    (IF n > MAX_PENDING_PINGS THEN MAX_PENDING_PINGS ELSE n))

\* More pings than the queue holds were accepted with no attestation: the
\* first one accepted is gone and the last one is at the tail.
C12_Witness ==
    /\ stored_hashes = <<>>
    /\ SumOver(accepted, AllPings) > MAX_PENDING_PINGS
    /\ Len(pending_pings_order) = MAX_PENDING_PINGS
    /\ ping_call.ret # NoPing
    /\ pending_pings_order[Len(pending_pings_order)] = ping_call.ret
    /\ \E p \in AllPings : accepted[p] = 1 /\ ~IsPending(p)

\* C13: the ping ids computed for two Ping logs are equal when the logs are
\* the same log, and differ when the logs are distinct, two logs of one
\* transaction included.
C13_PingIdUnique ==
    id_a # <<>> => (id_a = id_b <=> SameLog(log_a, log_b))

\* This step is a step of poll_for_events in which a call raised.
PollFails == PollHeadReadFails \/ PollGetLogsFails \/ PollCallbackFails

\* This step of poll_for_events sends a log query.
PollQueries == PollQuery \/ PollGetLogsFails

\* C14: poll_for_events sets last_processed_block only to the head it has
\* read and only when the log query and every callback of the batch have
\* returned; a poll in which the head read, the log query or a callback
\* raised leaves last_processed_block unchanged, and the next log query
\* starts at the block the failed one started at.
C14_AdvanceOnlyAfterBatch ==
    /\ [][(lpc \in {"sleep", "poll"}
             /\ last_processed_block' # last_processed_block) =>
              (/\ last_processed_block' = current_block'
               /\ batch' = <<>>
               /\ failures' = failures)]_vars
    /\ [][PollFails => last_processed_block' = last_processed_block]_vars
    /\ [][(PollQueries /\ failed_from # NoBlock) => poll_from' = failed_from]_vars

\* C15: the events one listener has delivered to its callback (calls that
\* returned), over the initial sync and all polls, failed ones included, are
\* in chain order: their block numbers never decrease and no event occurs
\* twice.
C15_ChainOrderNoRepeat ==
    \A i, j \in 1..Len(delivered) :
        i < j => (/\ delivered[i].blockNumber <= delivered[j].blockNumber
                  /\ delivered[i] # delivered[j])

\* This step is one in which an RPC call (head read or log query) raised.
RpcFails == StartPollingRpcFails \/ PollHeadReadFails \/ PollGetLogsFails

\* C16: a failed RPC call, in the initial sync or in a poll, does not end
\* start_polling: unless stop() was called, the listener is in the sleep
\* that precedes the next poll.
C16_RpcFailureKeepsLoop ==
    [][RpcFails => (lpc' # "raised" /\ (is_running' => lpc' = "sleep"))]_vars

\* C17: once stop() has been called the listener starts no log query (and
\* so invokes no callback for events of a later query); only callbacks of a
\* batch that was fetched before stop() may still run.
C17_NoQueryAfterStop ==
    "query" \notin after_stop

\* C18: when run() has returned, both listener tasks are finished, and no
\* listener task polls afterwards.
C18_TasksFinishedAtReturn ==
    rpc = "returned" =>
        (/\ \A l \in Listeners : TaskDone(l)
         /\ polled_after_return = {})

\* C19: if a listener task has ended while run() is in the sleep of its main
\* loop, run() eventually has called stop() on both listeners and returned.
C19_TaskEndLeadsToReturn ==
    (rpc = "sleep" /\ \E l \in Listeners : TaskDone(l))
        ~> (rpc = "returned" /\ stop_called = Listeners
            /\ \A l \in Listeners : ~listener_is_running[l])

\* run() has returned through the break of line 241: running was never
\* cleared, one task had raised, and both listeners are stopped.
C19_Witness ==
    /\ rpc = "returned"
    /\ running
    /\ \E l \in Listeners : task[l] = "raised"
    /\ stop_called = Listeners
    /\ \A l \in Listeners : ~listener_is_running[l]

\* C20: the relayer's own bookkeeping is bounded: pending_pings never holds
\* more than MAX_PENDING_PINGS pings and processed_tx_hashes never more than
\* MAX_PROCESSED_HASHES hashes.
C20_RelayerStateBounded ==
    /\ Len(relayer_pending_pings) <= MAX_PENDING_PINGS
    /\ Cardinality(relayer_processed_tx_hashes) <= MAX_PROCESSED_HASHES

\* The keys of a sequence, and a sequence without one key.
Keys(seq) == { seq[i] : i \in 1..Len(seq) }

Without(seq, x) == SelectSeq(seq, LAMBDA y : y # x)

\* C26: tracking a hash that is not tracked while processed_tx_hashes is full
\* evicts exactly the entry at the oldest position and puts the hash at the
\* most recent position; below capacity nothing is evicted; tracking a hash
\* that is present keeps the size and moves the hash to the most recent
\* position, the others keeping their order.
C26_TrackEvictsOldest ==
    [][\A tx_hash \in TrackHashes :
          TrackCall(tx_hash) =>
              LET old == processed_tx_hashes
                  new == processed_tx_hashes'
              IN /\ new # <<>> /\ new[Len(new)] = tx_hash
                 /\ IF tx_hash \in Keys(old)
                    THEN /\ Len(new) = Len(old)
                         /\ Without(new, tx_hash) = Without(old, tx_hash)
                    ELSE IF Len(old) >= MAX_PROCESSED_HASHES
                    THEN /\ Len(new) = Len(old)
                         /\ Keys(old) \ Keys(new) = {Head(old)}
                         /\ SubSeq(new, 1, Len(new) - 1) = Tail(old)
                    ELSE SubSeq(new, 1, Len(new) - 1) = old]_vars

\* A full set was given a new hash, and a present hash that was not the most
\* recent one was tracked again.
C26_Witness ==
    /\ Len(processed_tx_hashes) = MAX_PROCESSED_HASHES
    /\ Len(track_call.before) = MAX_PROCESSED_HASHES
    /\ track_call.tx_hash = Head(track_call.before)
    /\ "t5" \in Keys(processed_tx_hashes) /\ "t1" \notin Keys(processed_tx_hashes)

\* C27: the initial sync fetches [max(0, head - lookback), head]; a poll that
\* sees a head beyond last_processed_block queries exactly
\* [last_processed_block + 1, head], whatever last_processed_block is; and
\* last_processed_block never decreases.
C27_ExactWindows ==
    /\ [][StartPolling =>
              (/\ current_block' = block_number
               /\ batch' = GetLogs(Max(0, block_number - Lookback), block_number))]_vars
    /\ [][(PollQueries /\ block_number > last_processed_block) =>
              (/\ poll_from' = last_processed_block + 1
               /\ current_block' = block_number)]_vars
    /\ [][last_processed_block' >= last_processed_block]_vars

\* C28: the HashStored listener run() has created queries the RPC endpoint of
\* the target chain, where the attestations are emitted.
C28_HashListenerOnTargetRpc ==
    task["hash_listener"] # "none" =>
        listener_rpc_url["hash_listener"] = target_rpc_url

\* The response decodes to a CBOR map that has the key.
MapWithKey(response, key) ==
    response.kind = "map" /\ key \in DOMAIN response.value

\* C21 as stated: submit_tx raises exactly for a response that decodes to a
\* map with key error, and returns True for every other response: a map with
\* key ok, a map with neither key, a value that is not a map, an undecodable
\* payload.
C21_RaisesIffErrorKey ==
    \A i \in 1..Len(rofl_log) :
        LET response == rofl_log[i].response
        IN /\ rofl_log[i].outcome = "raised" <=> MapWithKey(response, "error")
           /\ ~MapWithKey(response, "error") => rofl_log[i].outcome = "True"

\* C21 amended: submit_tx returns True for a map with key ok, whatever else
\* the map holds; otherwise it raises exactly for a map with key error and
\* for a payload that cannot be decoded; every other response (a map with
\* neither key, a value that is not a map) returns True.
C21_Classification ==
    \A i \in 1..Len(rofl_log) :
        LET response == rofl_log[i].response
            fails == /\ ~MapWithKey(response, "ok")
                     /\ \/ MapWithKey(response, "error")
                        \/ response.kind \in {"bad_hex", "bad_cbor"}
        IN /\ rofl_log[i].outcome \in {"True", "raised"}
           /\ rofl_log[i].outcome = "raised" <=> fails

\* An undecodable payload was answered with an exception and a map with both
\* keys with True.
C21_Witness ==
    /\ Len(rofl_log) = 2
    /\ rofl_log[1].response.kind = "bad_cbor" /\ rofl_log[1].outcome = "raised"
    /\ MapWithKey(rofl_log[2].response, "ok")
    /\ MapWithKey(rofl_log[2].response, "error")
    /\ rofl_log[2].outcome = "True"

\* C22: in local mode submit_proof reports success only for a transaction
\* whose receipt has status 1; a reverted transaction, or one whose receipt
\* has not arrived, is not reported as success.
C22_LocalSuccessNeedsReceipt ==
    pm_mode = "local" /\ pm_submit = "returned" => pm_tx = "success"

\* The rebuilt receipts trie root differs from the header's receiptsRoot.
TrieRootMismatch ==
    /\ pm_chain.available = "all"
    /\ TrieRoot(EncodeReceipt) # TrieRoot(CanonicalReceipt(pm_chain))

\* C23: when the rebuilt receipts trie root differs from the header's
\* receiptsRoot, generate_proof returns no proof and nothing is submitted.
C23_NoProofOnTrieRootMismatch ==
    TrieRootMismatch =>
        /\ pm_generate.result \in {"none", "raised"}
        /\ pm_generate.proof = <<>>
        /\ pm_submit = "none"
        /\ pm_tx = "none"

\* generate_proof was called on a block whose root does not match, and raised.
C23_Witness ==
    /\ TrieRootMismatch
    /\ pm_generate.result = "raised"

\* C29: when keccak256 of the encoded header differs from the block's hash,
\* no proof with that header is returned and nothing is submitted.
C29_NoProofOnHeaderHashMismatch ==
    Keccak(EncodeHeader(pm_chain)) # Keccak(CanonicalHeader(pm_chain)) =>
        /\ pm_generate.result # "returned"
        /\ pm_tx = "none"

\* C30: element 7 of a returned proof is the position, within the logs of the
\* transaction's receipt, of the first log that is the ping's Ping log, and 0
\* when the receipt has no such log.
C30_LogIndexIsPositionInReceipt ==
    LET logs == pm_chain.logs
        matching == { i \in 1..Len(logs) : logs[i] = "ping" }
        position == IF matching = {} THEN 0
                    ELSE (CHOOSE i \in matching : \A j \in matching : i <= j) - 1
    IN pm_generate.result = "returned" => pm_generate.proof[8] = position

\* The last process_event call was made with a well-formed event of the
\* configured chain whose key can be hashed.
DeliveredKeyed ==
    /\ oracle_call # <<>>
    /\ oracle_call[1].event_data \in WellFormedEvents
    /\ oracle_call[1].event_data.chain_id = source_chain_id
    /\ oracle_call[1].event_data.logIndex # Unhashable

\* UniqueKey of the event of the last call.
DeliveredKey == UniqueKey(ParseEventData(oracle_call[1].event_data)[1])

\* The key of the last call was in the cache when the call was made.
DeliveredDuplicate ==
    /\ DeliveredKeyed
    /\ \E i \in 1..Len(oracle_call[1].before.processed_events) :
          oracle_call[1].before.processed_events[i] = DeliveredKey

\* C24: delivering an event whose unique key is in the dedupe cache returns
\* None, adds exactly 1 to events_duplicated and leaves events_processed and
\* the cache as they were; delivering one whose key is not in the cache
\* returns the event and adds 1 to events_processed.
C24_DuplicateDelivery ==
    DeliveredKeyed =>
        LET before == oracle_call[1].before
        IN IF DeliveredDuplicate
           THEN /\ oracle_call[1].returned = <<>>
                /\ events_duplicated = before.events_duplicated + 1
                /\ events_processed = before.events_processed
                /\ processed_events = before.processed_events
           ELSE /\ Len(oracle_call[1].returned) = 1
                /\ UniqueKey(oracle_call[1].returned[1]) = DeliveredKey
                /\ events_processed = before.events_processed + 1
                /\ events_duplicated = before.events_duplicated

\* An event was delivered again while an event processed after it was also
\* in the cache.
C24_Witness ==
    /\ DeliveredDuplicate
    /\ Len(processed_events) = 2
    /\ processed_events[1] = DeliveredKey
    /\ events_duplicated = 1

\* C25: every process_event call adds 1 to exactly one of the four metrics,
\* returns an event exactly when that metric is events_processed, and changes
\* the size of the cache only then.
C25_ExactlyOneMetric ==
    oracle_call # <<>> =>
        LET before == oracle_call[1].before
            d_processed == events_processed - before.events_processed
            d_filtered == events_filtered - before.events_filtered
            d_duplicated == events_duplicated - before.events_duplicated
            d_invalid == events_invalid - before.events_invalid
        IN /\ {d_processed, d_filtered, d_duplicated, d_invalid} \subseteq {0, 1}
           /\ d_processed + d_filtered + d_duplicated + d_invalid = 1
           /\ oracle_call[1].returned # <<>> <=> d_processed = 1
           /\ Len(processed_events) # Len(before.processed_events) => d_processed = 1

\* A processed event, a duplicate of it and a key that cannot be hashed have
\* been delivered, the last of them counted as invalid.
C25_Witness ==
    /\ oracle_call # <<>>
    /\ oracle_call[1].event_data \in WellFormedEvents
    /\ oracle_call[1].event_data.chain_id = source_chain_id
    /\ oracle_call[1].event_data.logIndex = Unhashable
    /\ events_processed = 1
    /\ events_duplicated = 1
    /\ events_invalid = 1

\* C31: the encoded header is the 15 legacy fields followed by exactly the
\* optional fields that are present and not null, each once and with its own
\* value, in the order baseFeePerGas, withdrawalsRoot, blobGasUsed,
\* excessBlobGas, parentBeaconBlockRoot, requestsRoot/requestsHash.
C31_HeaderFieldOrder ==
    enc_header # <<>> =>
        LET order == <<"baseFeePerGas", "withdrawalsRoot", "blobGasUsed",
                       "excessBlobGas", "parentBeaconBlockRoot", "requests">>
            Slot(name) == IF name \in {"requestsRoot", "requestsHash"}
                          THEN "requests" ELSE name
            Rank(name) == CHOOSE r \in 1..Len(order) : order[r] = Slot(name)
            Given(name) == enc_block[name] \in {"zero", "value"}
            tail == SubSeq(enc_header, Len(LegacyFields) + 1, Len(enc_header))
            At(name) == { i \in 1..Len(tail) : Slot(tail[i][1]) = Slot(name) }
        IN /\ Len(enc_header) >= Len(LegacyFields)
           /\ \A i \in 1..Len(LegacyFields) : enc_header[i][1] = LegacyFields[i]
           /\ \A i \in 1..Len(tail) :
                 /\ tail[i][1] \in OptionalFields
                 /\ Given(tail[i][1])
                 /\ tail[i][2] = enc_block[tail[i][1]]
           /\ \A name \in OptionalFields :
                 /\ Cardinality(At(name)) <= 1
                 /\ Given(name) => At(name) # {}
           /\ \A i, j \in 1..Len(tail) : i < j => Rank(tail[i][1]) < Rank(tail[j][1])

\* A header was encoded for a block without baseFeePerGas, with blobGasUsed 0
\* and with requestsHash in place of a null requestsRoot.
C31_Witness ==
    /\ enc_header # <<>>
    /\ enc_block["baseFeePerGas"] = "absent"
    /\ enc_block["blobGasUsed"] = "zero"
    /\ enc_block["requestsRoot"] = "null"
    /\ enc_block["requestsHash"] = "value"
    /\ enc_header[Len(enc_header)][1] = "requestsHash"

\* C32: the trie key of index 0 is 0x80, that of 137 is 0x8189, the key of
\* every index is the canonical RLP of the integer (it decodes to the index and
\* has no leading zero byte), and the proof's transactionIndex field is the
\* hex of the same bytes.
C32_TransactionIndexEncoding ==
    /\ enc_key # <<>> =>
          LET payload == IF Len(enc_key) = 1 /\ enc_key[1] < 128 THEN enc_key
                         ELSE Tail(enc_key)
              value == IF payload = <<>> THEN 0
                       ELSE IF Len(payload) = 1 THEN payload[1]
                       ELSE payload[1] * 256 + payload[2]
          IN /\ Len(payload) <= 2
             /\ Len(enc_key) > Len(payload) => enc_key[1] = 128 + Len(payload)
             /\ payload # <<>> => payload[1] # 0
             /\ value = enc_tx_index
             /\ enc_tx_index = 0 => enc_key = <<128>>
             /\ enc_tx_index = 137 => enc_key = <<129, 137>>
    /\ enc_field # <<>> =>
          /\ Len(enc_field) = 2 * Len(enc_key)
          /\ \A i \in 1..Len(enc_key) :
                enc_field[2 * i - 1] * 16 + enc_field[2 * i] = enc_key[i]

\* Index 137 was stored in the trie and emitted as 0x8189.
C32_Witness ==
    /\ enc_tx_index = 137
    /\ enc_key = <<129, 137>>
    /\ enc_field = <<8, 1, 8, 9>>

C34_DuplicateMovesKeyToEnd ==
    DeliveredDuplicate => processed_events[Len(processed_events)] = DeliveredKey

\* C35: the k-th ConnectionError/OSError in a row (no session in between
\* ended without one) with k < max_retries sets RECONNECTING and sleeps
\* min(base_delay * 2^k, 60) seconds, after which the listener connects
\* again; the max_retries-th sets FAILED and is re-raised; there are never
\* more than max_retries errors in a row and no sleep is longer than 60 s.
C35_RetryBackoff ==
    /\ [](ws_errors_in_row <= max_retries /\ ws_delay <= 60)
    /\ [][/\ ws_errors_in_row' = ws_errors_in_row + 1 =>
               IF ws_errors_in_row' < max_retries
               THEN /\ connection_state' = "reconnecting"
                    /\ ws_pc' = "sleeping"
                    /\ ws_delay' = IF base_delay * (2 ^ ws_errors_in_row') > 60 THEN 60
                                   ELSE base_delay * (2 ^ ws_errors_in_row')
               ELSE /\ connection_state' = "failed"
                    /\ ws_pc' = "raised"
          /\ ws_pc = "sleeping" /\ ws_pc' # ws_pc => ws_pc' = "connecting"
          /\ ws_pc = "raised" => ws_pc' = "raised"]_vars

\* The listener slept the capped 60 seconds and then failed for good.
C35_Witness ==
    /\ ws_pc = "raised"
    /\ connection_state = "failed"
    /\ ws_errors_in_row = max_retries
    /\ ws_delay = 60

\* C40: the listener reaches FAILED only after max_retries errors with no
\* successful connection in between.
C40_BudgetResetOnConnect ==
    connection_state = "failed" => ws_errors_since_connected = max_retries

\* C36: a Ping log with a transaction hash, no PingEvent of which has been
\* accepted so far, is not discarded: the call returns its PingEvent, also
\* when another Ping log of the same transaction was processed before.
C36_SecondLogOfTransactionKept ==
    /\ ping_call.event # NoPing
    /\ ping_call.event.transactionHash # None
    /\ accepted[PingOf(ping_call.event)] = 0
    => ping_call.ret # NoPing

\* C37: a transaction hash is in processed_tx_hashes only if a PingEvent of
\* that transaction was accepted into the pending table.
C37_TrackedOnlyIfAccepted ==
    \A i \in 1..Len(processed_tx_hashes) :
        \E p \in AllPings : p.tx_hash = processed_tx_hashes[i] /\ accepted[p] > 0

\* C38: process_ping_event may run while process_hash_stored is suspended in a
\* submission.  Whatever it inserted or evicted meanwhile, a ping is handed to
\* the proof builder only if the pending table holds it at that moment, and
\* the removal after a successful submission never raises, also when the
\* submitted ping was evicted during the submission.
C38_HandOffOnlyIfPending ==
    /\ [][Len(handed') = Len(handed) + 1
           => TableCount(pending_pings, handed'[Len(handed')]) > 0]_vars
    /\ [](\A i \in 1..Len(results) : results[i] # "remove_error")

\* A ping was handed over and, while its submission is suspended, a newly
\* accepted ping evicted it.
C38_Witness ==
    /\ pc = "await"
    /\ handed # <<>>
    /\ handed[Len(handed)] = cur_ping
    /\ ping_call.ret # NoPing
    /\ ~IsPending(cur_ping)

\* C39: is_running is true only while a loop started by start_polling is
\* executing: once start_polling has exited, by an error of the initial sync,
\* by cancellation or by stop(), is_running is false, so that a later
\* start_polling passes the test of line 149 and polls again.
C39_RunningOnlyWhileLooping ==
    lpc \in {"done", "raised", "cancelled"} => ~is_running

====
